---- MODULE Spec2Model ----
(***************************************************************************)
(* A model of mdto.py: the MDTO dataclasses (classes.py), their validator  *)
(* (Serializable.validate and its overrides), the object -> XML encoder    *)
(* (Serializable.to_xml, Object.to_xml), Object.save, and the XML -> object*)
(* decoder (utilities.from_xml).                                           *)
(*                                                                         *)
(* Python values are tagged records:                                       *)
(*   None            [k |-> "None"]                                        *)
(*   str             [k |-> "str",  s |-> "..."]                           *)
(*   int             [k |-> "int",  n |-> 7]                               *)
(*   list            [k |-> "list", items |-> << ... >>]                   *)
(*   dataclass       [k |-> "obj",  cls |-> "BegripGegevens", f |-> [...]] *)
(* XML elements are records [ns, tag, text, children].                     *)
(***************************************************************************)
EXTENDS Integers, Sequences, FiniteSets, TLC

(***************************************************************************)
(* Python values                                                           *)
(***************************************************************************)
None == [k |-> "None"]
PyStr(s) == [k |-> "str", s |-> s]
PyInt(n) == [k |-> "int", n |-> n]
PyList(items) == [k |-> "list", items |-> items]
PyObj(cls, f) == [k |-> "obj", cls |-> cls, f |-> f]

\* type(v).__name__
TypeName(v) ==
  CASE v.k = "None" -> "NoneType"
    [] v.k = "str" -> "str"
    [] v.k = "int" -> "int"
    [] v.k = "list" -> "list"
    [] v.k = "obj" -> v.cls

\* a test of emptiness that takes only None and values of length 0 as empty
Mutant_Truthy(v) ==
  CASE v.k = "None" -> FALSE
    [] v.k = "str" -> v.s # ""
    [] v.k = "int" -> TRUE
    [] v.k = "list" -> v.items # << >>
    [] v.k = "obj" -> TRUE

\* bool(v): None, "", 0 and empty sequences are falsy; dataclass instances
\* define neither __bool__ nor __len__ and are always truthy
Truthy(v) ==
  CASE v.k = "None" -> FALSE
    [] v.k = "str" -> v.s # ""
    [] v.k = "int" -> v.n # 0
    [] v.k = "list" -> v.items # << >>
    [] v.k = "obj" -> TRUE

\* isinstance(v, (list, tuple, set))
IsSequence(v) == v.k = "list"

\* isinstance(v, Serializable): every dataclass of the package derives from it
IsSerializable(v) == v.k = "obj"

\* range of a sequence
Range(seq) == {seq[i] : i \in 1..Len(seq)}

\* the least element of a non-empty set of integers
Min(S) == CHOOSE i \in S : \A j \in S : i <= j

\* the items of seq at the positions of idxs, in order
Pick(seq, idxs) ==
  [k \in 1..Cardinality(idxs) |->
     seq[CHOOSE i \in idxs : Cardinality({j \in idxs : j <= i}) = k]]

RECURSIVE Concat(_)
\* the concatenation of a sequence of sequences
Concat(seqs) == IF seqs = << >> THEN << >> ELSE Head(seqs) \o Concat(Tail(seqs))

(***************************************************************************)
(* globals                                                                 *)
(***************************************************************************)
MDTO_MAX_NAAM_LENGTH == 80

MDTO_NS == "https://www.nationaalarchief.nl/mdto"

(***************************************************************************)
(* The dataclasses: dataclasses.fields(cls) in declaration order.          *)
(* type is the first alternative of the annotation; origin is what         *)
(* typing.get_origin returns for the annotation: "Union" for               *)
(* `T | typing.List[T]`, "UnionType" for `T | list[T]` (a types.UnionType, *)
(* which is not typing.Union), "plain" for a bare class.  optional is      *)
(* `field.default is None`.                                                *)
(***************************************************************************)
Field(name, type, origin, optional) ==
  [name |-> name, type |-> type, origin |-> origin, optional |-> optional]

IdentificatieGegevens ==
  << Field("identificatieKenmerk", "str", "plain", FALSE),
     Field("identificatieBron", "str", "plain", FALSE) >>

VerwijzingGegevens ==
  << Field("verwijzingNaam", "str", "plain", FALSE),
     Field("verwijzingIdentificatie", "IdentificatieGegevens", "plain", TRUE) >>

BegripGegevens ==
  << Field("begripLabel", "str", "plain", FALSE),
     Field("begripBegrippenlijst", "VerwijzingGegevens", "plain", FALSE),
     Field("begripCode", "str", "plain", TRUE) >>

TermijnGegevens ==
  << Field("termijnTriggerStartLooptijd", "BegripGegevens", "plain", TRUE),
     Field("termijnStartdatumLooptijd", "str", "plain", TRUE),
     Field("termijnLooptijd", "str", "plain", TRUE),
     Field("termijnEinddatum", "str", "plain", TRUE) >>

ChecksumGegevens ==
  << Field("checksumAlgoritme", "BegripGegevens", "plain", FALSE),
     Field("checksumWaarde", "str", "plain", FALSE),
     Field("checksumDatum", "str", "plain", FALSE) >>

BeperkingGebruikGegevens ==
  << Field("beperkingGebruikType", "BegripGegevens", "plain", FALSE),
     Field("beperkingGebruikNadereBeschrijving", "str", "plain", TRUE),
     Field("beperkingGebruikDocumentatie", "VerwijzingGegevens", "UnionType", TRUE),
     Field("beperkingGebruikTermijn", "TermijnGegevens", "plain", TRUE) >>

DekkingInTijdGegevens ==
  << Field("dekkingInTijdType", "BegripGegevens", "plain", FALSE),
     Field("dekkingInTijdBegindatum", "str", "plain", FALSE),
     Field("dekkingInTijdEinddatum", "str", "plain", TRUE) >>

EventGegevens ==
  << Field("eventType", "BegripGegevens", "plain", FALSE),
     Field("eventTijd", "str", "plain", TRUE),
     Field("eventVerantwoordelijkeActor", "VerwijzingGegevens", "plain", TRUE),
     Field("eventResultaat", "str", "plain", TRUE) >>

RaadpleeglocatieGegevens ==
  << Field("raadpleeglocatieFysiek", "VerwijzingGegevens", "Union", TRUE),
     Field("raadpleeglocatieOnline", "str", "Union", TRUE) >>

GerelateerdInformatieobjectGegevens ==
  << Field("gerelateerdInformatieobjectVerwijzing", "VerwijzingGegevens", "plain", FALSE),
     Field("gerelateerdInformatieobjectTypeRelatie", "BegripGegevens", "plain", FALSE) >>

BetrokkeneGegevens ==
  << Field("betrokkeneTypeRelatie", "BegripGegevens", "plain", FALSE),
     Field("betrokkeneActor", "VerwijzingGegevens", "plain", FALSE) >>

\* the parent class of Informatieobject and Bestand
Object ==
  << Field("identificatie", "IdentificatieGegevens", "Union", FALSE),
     Field("naam", "str", "plain", FALSE) >>

Informatieobject ==
  Object \o
  << Field("archiefvormer", "VerwijzingGegevens", "Union", FALSE),
     Field("beperkingGebruik", "BeperkingGebruikGegevens", "Union", FALSE),
     Field("waardering", "BegripGegevens", "plain", FALSE),
     Field("aggregatieniveau", "BegripGegevens", "plain", TRUE),
     Field("classificatie", "BegripGegevens", "Union", TRUE),
     Field("trefwoord", "str", "Union", TRUE),
     Field("omschrijving", "str", "Union", TRUE),
     Field("raadpleeglocatie", "RaadpleeglocatieGegevens", "Union", TRUE),
     Field("dekkingInTijd", "DekkingInTijdGegevens", "Union", TRUE),
     Field("dekkingInRuimte", "VerwijzingGegevens", "Union", TRUE),
     Field("taal", "str", "Union", TRUE),
     Field("event", "EventGegevens", "Union", TRUE),
     Field("bewaartermijn", "TermijnGegevens", "plain", TRUE),
     Field("informatiecategorie", "BegripGegevens", "plain", TRUE),
     Field("isOnderdeelVan", "VerwijzingGegevens", "Union", TRUE),
     Field("bevatOnderdeel", "VerwijzingGegevens", "Union", TRUE),
     Field("heeftRepresentatie", "VerwijzingGegevens", "Union", TRUE),
     Field("aanvullendeMetagegevens", "VerwijzingGegevens", "Union", TRUE),
     Field("gerelateerdInformatieobject", "GerelateerdInformatieobjectGegevens", "Union", TRUE),
     Field("betrokkene", "BetrokkeneGegevens", "Union", TRUE),
     Field("activiteit", "VerwijzingGegevens", "Union", TRUE) >>

Bestand ==
  Object \o
  << Field("omvang", "int", "plain", FALSE),
     Field("bestandsformaat", "BegripGegevens", "plain", FALSE),
     Field("checksum", "ChecksumGegevens", "Union", FALSE),
     Field("isRepresentatieVan", "VerwijzingGegevens", "plain", FALSE),
     Field("URLBestand", "str", "plain", TRUE) >>

\* the classes exposed by gegevensgroepen.py
ClassNames ==
  { "IdentificatieGegevens", "VerwijzingGegevens", "BegripGegevens",
    "TermijnGegevens", "ChecksumGegevens", "BeperkingGebruikGegevens",
    "DekkingInTijdGegevens", "EventGegevens", "RaadpleeglocatieGegevens",
    "GerelateerdInformatieobjectGegevens", "BetrokkeneGegevens",
    "Informatieobject", "Bestand" }

\* dataclasses.fields(self), looked up by class name
fields(cls) ==
  CASE cls = "IdentificatieGegevens" -> IdentificatieGegevens
    [] cls = "VerwijzingGegevens" -> VerwijzingGegevens
    [] cls = "BegripGegevens" -> BegripGegevens
    [] cls = "TermijnGegevens" -> TermijnGegevens
    [] cls = "ChecksumGegevens" -> ChecksumGegevens
    [] cls = "BeperkingGebruikGegevens" -> BeperkingGebruikGegevens
    [] cls = "DekkingInTijdGegevens" -> DekkingInTijdGegevens
    [] cls = "EventGegevens" -> EventGegevens
    [] cls = "RaadpleeglocatieGegevens" -> RaadpleeglocatieGegevens
    [] cls = "GerelateerdInformatieobjectGegevens" -> GerelateerdInformatieobjectGegevens
    [] cls = "BetrokkeneGegevens" -> BetrokkeneGegevens
    [] cls = "Informatieobject" -> Informatieobject
    [] cls = "Bestand" -> Bestand

FieldNames(cls) == {fields(cls)[i].name : i \in 1..Len(fields(cls))}

\* the dataclass-generated __init__ called with keyword arguments: every
\* field without a default must be given, the others default to None
New(cls, kwargs) ==
  PyObj(cls, [n \in FieldNames(cls) |->
                IF n \in DOMAIN kwargs THEN kwargs[n] ELSE None])

(***************************************************************************)
(* helpers.validate_url_or_urls.  validators.url is a library predicate;   *)
(* the strings it accepts are those of WellFormedUrls.                     *)
(***************************************************************************)
WellFormedUrls == {"https://www.example.com", "https://kia.pleio.nl/file"}

validators_url(u) == u \in WellFormedUrls

\* every URL passes
Mutant_validate_url_or_urls(url) == TRUE

validate_url_or_urls(url) ==
  IF url = None THEN TRUE
  ELSE LET urls == IF url.k = "str" THEN << url >>
                   ELSE IF url.k = "list" THEN url.items ELSE << url >>
       IN \A i \in 1..Len(urls) : urls[i].k = "str" /\ validators_url(urls[i].s)

(***************************************************************************)
(* The outcome of validate(): err is NoErr when it returns normally, a     *)
(* ValidationError(field_path, msg), or the TypeError that isinstance      *)
(* raises for a parameterized generic; log holds the warnings emitted      *)
(* through helpers.logging.warning while it ran.                           *)
(***************************************************************************)
NoErr == [kind |-> "none"]
ValidationError(field_path, msg) ==
  [kind |-> "ValidationError", field_path |-> field_path, msg |-> msg]
PyTypeError == [kind |-> "TypeError"]  \* isinstance() argument 2 cannot be a parameterized generic

Outcome(err, log) == [err |-> err, log |-> log]

MsgMandatory == [m |-> "mandatory field cannot be empty or None"]
MsgNoSequences(got) ==
  [m |-> "got type {got}, but field does not accept sequences", got |-> got]
MsgListItems(expected, found) ==
  [m |-> "list items must be {expected}, but found {found}",
   expected |-> expected, found |-> found]
MsgExpectedType(expected, got) ==
  [m |-> "expected type {expected}, got {got}", expected |-> expected, got |-> got]
MsgMalformed(url) == [m |-> "url {url} is malformed", url |-> url]

LongNameWarning(cls, field, value) ==
  [w |-> "exceeds recommended length", cls |-> cls, field |-> field, value |-> value]

RECURSIVE validate(_), Serializable_validate(_), Serializable_validate_field(_, _, _)

\* every field passes for optional: the check `not optional_field and not
\* field_value` never fires
Mutant_optional_field(field) == TRUE

\* optional_field = field.default is None
optional_field(field) == field.optional

\* "check if field is listable based on type hint": get_origin(field_type) is Union
listable(field) == field.origin = "Union"

\* the inner error is re-raised as it came, without the owner's names
Mutant_reraise(cls_name, field_name, deeper_error) == deeper_error

\* raise ValidationError([cls_name, field_name] + deeper_error.field_path,
\*                       deeper_error.msg) from None
reraise(cls_name, field_name, deeper_error) ==
  ValidationError(<< cls_name, field_name >> \o deeper_error.field_path, deeper_error.msg)

\* the body of the loop of Serializable.validate for one field: NoErr means
\* the loop goes on to the next field
\* the outcome of field_value.validate() as the owner passes it on: a
\* ValidationError is re-raised with the owner's names in front
bubble(cls_name, field_name, deeper) ==
  IF deeper.err.kind = "ValidationError"
  THEN Outcome(reraise(cls_name, field_name, deeper.err), deeper.log)
  ELSE deeper

Serializable_validate_field(cls_name, field, field_value) ==
  LET err(m) == Outcome(ValidationError(<< cls_name, field.name >>, m), << >>)
  IN IF optional_field(field) /\ ~Truthy(field_value) THEN Outcome(NoErr, << >>)
     ELSE IF ~optional_field(field) /\ ~Truthy(field_value) THEN err(MsgMandatory)
     ELSE IF IsSequence(field_value)
     THEN IF ~listable(field) THEN err(MsgNoSequences(TypeName(field_value)))
          ELSE IF ~ \A i \in 1..Len(field_value.items) :
                       TypeName(field_value.items[i]) = field.type
          THEN err(MsgListItems(field.type,
                     {TypeName(field_value.items[i]) : i \in 1..Len(field_value.items)}))
          ELSE Outcome(NoErr, << >>)
     ELSE IF TypeName(field_value) # field.type
     THEN IF field.origin = "UnionType"
          \* isinstance(x, T | list[T]) raises once T has not matched
          THEN Outcome(PyTypeError, << >>)
          ELSE err(MsgExpectedType(field.type, TypeName(field_value)))
     ELSE IF IsSerializable(field_value)
     THEN bubble(cls_name, field.name, validate(field_value))
     ELSE Outcome(NoErr, << >>)

\* the loop over the fields stops at the first one that raises: its error,
\* and the warnings logged up to it
first_error(outcomes) ==
  LET failed == {i \in 1..Len(outcomes) : outcomes[i].err # NoErr}
      last_i == IF failed = {} THEN Len(outcomes) ELSE Min(failed)
  IN Outcome(IF failed = {} THEN NoErr ELSE outcomes[last_i].err,
             Concat([i \in 1..last_i |-> outcomes[i].log]))

\* Serializable.validate: the fields in declaration order, first error wins
Serializable_validate(self) ==
  LET fs == fields(self.cls)
  IN first_error(<< >> \o [i \in 1..Len(fs) |->
       Serializable_validate_field(self.cls, fs[i], self.f[fs[i].name])])

\* what VerwijzingGegevens.validate does after super().validate() gave r
VerwijzingGegevens_checks(self, r) ==
  IF r.err # NoErr THEN r
  ELSE IF Len(self.f.verwijzingNaam.s) > MDTO_MAX_NAAM_LENGTH
  THEN Outcome(NoErr, Append(r.log,
         LongNameWarning("VerwijzingGegevens", "verwijzingNaam", self.f.verwijzingNaam.s)))
  ELSE r

\* VerwijzingGegevens.validate
VerwijzingGegevens_validate(self) == VerwijzingGegevens_checks(self, Serializable_validate(self))

\* what RaadpleeglocatieGegevens.validate does after super().validate() gave r
RaadpleeglocatieGegevens_checks(self, r) ==
  IF r.err # NoErr THEN r
  ELSE IF ~validate_url_or_urls(self.f.raadpleeglocatieOnline)
  THEN Outcome(ValidationError(<< "informatieobject", "raadpleeglocatie",
                                  "RaadpleeglocatieGegevens", "raadpleeglocatieOnline" >>,
                               MsgMalformed(self.f.raadpleeglocatieOnline)), r.log)
  ELSE r

\* RaadpleeglocatieGegevens.validate
RaadpleeglocatieGegevens_validate(self) ==
  RaadpleeglocatieGegevens_checks(self, Serializable_validate(self))

\* Object.validate that warns from MDTO_MAX_NAAM_LENGTH characters on
Mutant_Object_checks(self, r) ==
  IF r.err # NoErr THEN r
  ELSE IF Len(self.f.naam.s) >= MDTO_MAX_NAAM_LENGTH
  THEN Outcome(NoErr, Append(r.log, LongNameWarning(self.cls, "naam", self.f.naam.s)))
  ELSE r

\* what Object.validate does after super().validate() gave r
Object_checks(self, r) ==
  IF r.err # NoErr THEN r
  ELSE IF Len(self.f.naam.s) > MDTO_MAX_NAAM_LENGTH
  THEN Outcome(NoErr, Append(r.log, LongNameWarning(self.cls, "naam", self.f.naam.s)))
  ELSE r

\* Object.validate
Object_validate(self) == Object_checks(self, Serializable_validate(self))

\* what Bestand.validate does after super().validate() gave r
Bestand_checks(self, r) ==
  IF r.err # NoErr THEN r
  ELSE IF ~validate_url_or_urls(self.f.URLBestand)
  THEN Outcome(ValidationError(<< "bestand", "URLBestand" >>,
                               MsgMalformed(self.f.URLBestand)), r.log)
  ELSE r

\* Bestand.validate
Bestand_validate(self) == Bestand_checks(self, Object_validate(self))

\* self.validate(): method resolution by the class of the instance
validate(self) ==
  CASE self.cls = "VerwijzingGegevens" -> VerwijzingGegevens_validate(self)
    [] self.cls = "RaadpleeglocatieGegevens" -> RaadpleeglocatieGegevens_validate(self)
    [] self.cls = "Informatieobject" -> Object_validate(self)
    [] self.cls = "Bestand" -> Bestand_validate(self)
    [] OTHER -> Serializable_validate(self)

(***************************************************************************)
(* str() and int() on the primitives that reach the encoder and decoder    *)
(***************************************************************************)
\* the largest integer whose decimal forms int() is asked to read
MaxInt == 12

Digit(d) ==
  CASE d = 0 -> "0" [] d = 1 -> "1" [] d = 2 -> "2" [] d = 3 -> "3" [] d = 4 -> "4"
    [] d = 5 -> "5" [] d = 6 -> "6" [] d = 7 -> "7" [] d = 8 -> "8" [] d = 9 -> "9"

RECURSIVE IntToStr(_)
\* str(n) for an int
IntToStr(n) ==
  IF n < 0 THEN "-" \o IntToStr(0 - n)
  ELSE IF n < 10 THEN Digit(n)
  ELSE IntToStr(n \div 10) \o Digit(n % 10)

\* str(value) as used for the text of a primitive's element
py_str(value) ==
  CASE value.k = "str" -> value.s
    [] value.k = "int" -> IntToStr(value.n)

\* the literals int() reads as n: the canonical decimal, a leading zero,
\* an explicit sign
IntLiterals(n) == {IntToStr(n), "0" \o IntToStr(n), "+" \o IntToStr(n)}

\* an exception raised by the interpreter or a library instead of a result
Raise(exc) == [kind |-> exc]
Raised(x) == "kind" \in DOMAIN x

\* int(text): TypeError for None, ValueError for a non-numeric literal
py_int(text) ==
  IF text = None THEN Raise("TypeError")
  ELSE IF \E n \in 0..MaxInt : text.s \in IntLiterals(n)
  THEN PyInt(CHOOSE n \in 0..MaxInt : text.s \in IntLiterals(n))
  ELSE Raise("ValueError")

(***************************************************************************)
(* XML elements (lxml): ns is the namespace of the tag ("" for none), text *)
(* is the element's text ("" for no text), children its child elements.    *)
(***************************************************************************)
Element(tag, text, children) ==
  [ns |-> "", tag |-> tag, text |-> text, children |-> children]

(***************************************************************************)
(* Field-order resolver                                                    *)
(***************************************************************************)
\* Serializable._mdto_ordered_fields
Serializable_mdto_ordered_fields(cls) == fields(cls)

\* the override is missing: the declaration order
Mutant_BegripGegevens_mdto_ordered_fields(cls) == fields(cls)

\* BegripGegevens._mdto_ordered_fields: fields[:-2] + (fields[2], fields[1])
BegripGegevens_mdto_ordered_fields(cls) ==
  LET fs == Serializable_mdto_ordered_fields(cls)
  IN SubSeq(fs, 1, Len(fs) - 2) \o << fs[3], fs[2] >>

sorting_mapping ==
  [identificatie |-> 0, naam |-> 1, aggregatieniveau |-> 2, classificatie |-> 3,
   trefwoord |-> 4, omschrijving |-> 5, raadpleeglocatie |-> 6, dekkingInTijd |-> 7,
   dekkingInRuimte |-> 8, taal |-> 9, event |-> 10, waardering |-> 11,
   bewaartermijn |-> 12, informatiecategorie |-> 13, isOnderdeelVan |-> 14,
   bevatOnderdeel |-> 15, heeftRepresentatie |-> 16, aanvullendeMetagegevens |-> 17,
   gerelateerdInformatieobject |-> 18, archiefvormer |-> 19, betrokkene |-> 20,
   activiteit |-> 21, beperkingGebruik |-> 22]

\* sorted(seq, key): a stable sort by ascending key
sorted(seq, key) ==
  LET before(i, j) ==
        \/ key[seq[i].name] < key[seq[j].name]
        \/ key[seq[i].name] = key[seq[j].name] /\ i < j
      rank == << >> \o [j \in 1..Len(seq) |->
                Cardinality({i \in 1..Len(seq) : before(i, j)}) + 1]
  IN [r \in 1..Len(seq) |-> seq[CHOOSE j \in 1..Len(seq) : rank[j] = r]]

\* the override is missing: the declaration order
Mutant_Informatieobject_mdto_ordered_fields(cls) == fields(cls)

\* Informatieobject._mdto_ordered_fields
Informatieobject_mdto_ordered_fields(cls) == sorted(fields(cls), sorting_mapping)

\* an override that takes the last field twice and drops the one before it
Mutant_Bestand_mdto_ordered_fields(cls) ==
  LET fs == Serializable_mdto_ordered_fields(cls)
  IN SubSeq(fs, 1, Len(fs) - 2) \o << fs[Len(fs)], fs[Len(fs)] >>

\* Bestand._mdto_ordered_fields: fields[:-2] + (fields[-1], fields[-2])
Bestand_mdto_ordered_fields(cls) ==
  LET fs == Serializable_mdto_ordered_fields(cls)
  IN SubSeq(fs, 1, Len(fs) - 2) \o << fs[Len(fs)], fs[Len(fs) - 1] >>

\* self._mdto_ordered_fields(): method resolution by class
mdto_ordered_fields(cls) ==
  CASE cls = "BegripGegevens" -> BegripGegevens_mdto_ordered_fields(cls)
    [] cls = "Informatieobject" -> Informatieobject_mdto_ordered_fields(cls)
    [] cls = "Bestand" -> Bestand_mdto_ordered_fields(cls)
    [] OTHER -> Serializable_mdto_ordered_fields(cls)

(***************************************************************************)
(* Object -> XML encoder                                                   *)
(***************************************************************************)
RECURSIVE to_xml(_, _), Serializable_to_xml(_, _), process_dataclass_field(_, _)

\* a run of sibling elements
Elems(seq) == [elems |-> seq]

\* root_elem.extend(...) and root_elem.append(...): the elements made for
\* the field, or the first exception raised while making them
extend(elems) ==
  LET failed == {i \in 1..Len(elems) : Raised(elems[i])}
  IN IF failed # {} THEN elems[Min(failed)] ELSE Elems(elems)

\* _process_dataclass_field that encodes a sequence by its first item only
Mutant_process_dataclass_field(field_name, field_value) ==
  IF field_value = None THEN Elems(<< >>)
  ELSE IF IsSequence(field_value)
  THEN IF field_value.items = << >> THEN Elems(<< >>)
       ELSE process_dataclass_field(field_name, field_value.items[1])
  ELSE IF IsSerializable(field_value)
  THEN extend(<< to_xml(field_value, field_name) >>)
  ELSE Elems(<< Element(field_name, py_str(field_value), << >>) >>)

\* Serializable._process_dataclass_field: the elements appended to
\* root_elem for one field, or the exception raised on the way
process_dataclass_field(field_name, field_value) ==
  IF field_value = None THEN Elems(<< >>)
  ELSE IF IsSequence(field_value)
  THEN LET item_elem(item) ==
             IF item.k = "str" THEN Element(field_name, py_str(item), << >>)
             ELSE IF IsSerializable(item) THEN to_xml(item, field_name)
             \* None, int and list have no to_xml attribute
             ELSE Raise("AttributeError")
       IN extend(<< >> \o [i \in 1..Len(field_value.items) |->
                             item_elem(field_value.items[i])])
  ELSE IF IsSerializable(field_value)
  THEN extend(<< to_xml(field_value, field_name) >>)
  ELSE Elems(<< Element(field_name, py_str(field_value), << >>) >>)

\* root_elem = ET.Element(root) with what the fields contributed, or the
\* first exception raised on the way
root_elem(root, parts) ==
  LET failed == {i \in 1..Len(parts) : Raised(parts[i])}
  IN IF failed # {} THEN parts[Min(failed)]
     ELSE Element(root, "", Concat([i \in 1..Len(parts) |-> parts[i].elems]))

\* the loop of to_xml over the ordered fields fs
field_elems(self, fs) ==
  << >> \o [i \in 1..Len(fs) |-> process_dataclass_field(fs[i].name, self.f[fs[i].name])]

\* to_xml that validates before it encodes
Mutant_Serializable_to_xml(self, root) ==
  IF validate(self).err # NoErr THEN validate(self).err
  ELSE root_elem(root, field_elems(self, mdto_ordered_fields(self.cls)))

\* Serializable.to_xml(root)
Serializable_to_xml(self, root) ==
  \* what each field contributes, in resolver order
  root_elem(root, field_elems(self, mdto_ordered_fields(self.cls)))

\* item.to_xml(field_name) on a nested instance: the *Gegevens classes pass
\* the root name on to Serializable.to_xml; Informatieobject.to_xml and
\* Bestand.to_xml take no root argument
to_xml(self, root) ==
  IF self.cls \in {"Informatieobject", "Bestand"} THEN Raise("TypeError")
  ELSE Serializable_to_xml(self, root)

Tabs(level) == [i \in 1..level |-> "\t"]

RECURSIVE Join(_)
Join(strs) == IF strs = << >> THEN "" ELSE Head(strs) \o Join(Tail(strs))

RECURSIVE indent(_, _)
\* ET.indent(tree, space="\t"): an element with children gets a newline and
\* the indentation of its first child as text
indent(elem, level) ==
  IF elem.children = << >> THEN elem
  ELSE [elem EXCEPT !.text = "\n" \o Join(Tabs(level + 1)),
                    !.children = [i \in 1..Len(elem.children) |->
                                    indent(elem.children[i], level + 1)]]

xsi_ns == "http://www.w3.org/2001/XMLSchema-instance"

schemaLocation ==
  "https://www.nationaalarchief.nl/mdto https://www.nationaalarchief.nl/mdto/MDTO-XML1.0.1.xsd"

\* mdto = ET.Element("MDTO", nsmap=nsmap) with its schemaLocation and the
\* encoded object as its child, indented
mdto(children) ==
  IF Raised(children) THEN children
  ELSE indent([ns |-> "", tag |-> "MDTO", text |-> "", children |-> << children >>,
               nsmap |-> [default |-> MDTO_NS, xsi |-> xsi_ns],
               attrib |-> [schemaLocation |-> schemaLocation]], 0)

\* Object.to_xml(root): the <MDTO> envelope around the encoded fields
Object_to_xml(self, root) == mdto(Serializable_to_xml(self, root))

\* the root child is given the name of the class
Mutant_Informatieobject_to_xml(self) == Object_to_xml(self, "Informatieobject")

\* Informatieobject.to_xml() and Bestand.to_xml()
Informatieobject_to_xml(self) == Object_to_xml(self, "informatieobject")
Bestand_to_xml(self) == Object_to_xml(self, "bestand")

\* self.to_xml() on a top-level object
top_to_xml(self) ==
  IF self.cls = "Informatieobject" THEN Informatieobject_to_xml(self)
  ELSE Bestand_to_xml(self)

(***************************************************************************)
(* XML -> object decoder (utilities.from_xml)                              *)
(***************************************************************************)
\* child.tag.removeprefix("{https://www.nationaalarchief.nl/mdto}")
removeprefix(node) ==
  IF node.ns = MDTO_NS \/ node.ns = "" THEN node.tag
  ELSE "{" \o node.ns \o "}" \o node.tag

\* node.text as lxml reports it: None for an element without text
node_text(node) == IF node.text = "" THEN None ELSE PyStr(node.text)

parse_text(node) == node_text(node)

parse_int(node) == py_int(node_text(node))

\* node[i] raises IndexError when the element has fewer children
parse_identificatie(node) ==
  IF Len(node.children) < 2 THEN Raise("IndexError")
  ELSE New("IdentificatieGegevens",
           [identificatieKenmerk |-> node_text(node.children[1]),
            identificatieBron |-> node_text(node.children[2])])

\* parse_verwijzing that ignores the second child
Mutant_parse_verwijzing(node) ==
  IF Len(node.children) = 0 THEN Raise("IndexError")
  ELSE New("VerwijzingGegevens", [verwijzingNaam |-> node_text(node.children[1])])

parse_verwijzing(node) ==
  IF Len(node.children) = 1
  THEN New("VerwijzingGegevens", [verwijzingNaam |-> node_text(node.children[1])])
  ELSE IF Len(node.children) = 0 THEN Raise("IndexError")
  ELSE LET ident == parse_identificatie(node.children[2])
       IN IF Raised(ident) THEN ident
          ELSE New("VerwijzingGegevens",
                   [verwijzingNaam |-> node_text(node.children[1]),
                    verwijzingIdentificatie |-> ident])

begrip_parsers ==
  [begripLabel |-> "parse_text", begripCode |-> "parse_text",
   begripBegrippenlijst |-> "parse_verwijzing"]

termijn_parsers ==
  [termijnTriggerStartLooptijd |-> "parse_begrip", termijnStartdatumLooptijd |-> "parse_text",
   termijnLooptijd |-> "parse_text", termijnEinddatum |-> "parse_text"]

beperking_parsers ==
  [beperkingGebruikType |-> "parse_begrip", beperkingGebruikNadereBeschrijving |-> "parse_text",
   beperkingGebruikDocumentatie |-> "parse_verwijzing", beperkingGebruikTermijn |-> "parse_termijn"]

raadpleeglocatie_parsers ==
  [raadpleeglocatieFysiek |-> "parse_verwijzing", raadpleeglocatieOnline |-> "parse_text"]

dekking_in_tijd_parsers ==
  [dekkingInTijdType |-> "parse_begrip", dekkingInTijdBegindatum |-> "parse_text",
   dekkingInTijdEinddatum |-> "parse_text"]

event_parsers ==
  [eventType |-> "parse_begrip", eventTijd |-> "parse_text",
   eventVerantwoordelijkeActor |-> "parse_verwijzing", eventResultaat |-> "parse_text"]

gerelateerd_informatieobject_parsers ==
  [gerelateerdInformatieobjectVerwijzing |-> "parse_verwijzing",
   gerelateerdInformatieobjectTypeRelatie |-> "parse_begrip"]

betrokkene_parsers ==
  [betrokkeneTypeRelatie |-> "parse_begrip", betrokkeneActor |-> "parse_verwijzing"]

checksum_parsers ==
  [checksumAlgoritme |-> "parse_begrip", checksumWaarde |-> "parse_text",
   checksumDatum |-> "parse_text"]

informatieobject_parsers ==
  [naam |-> "parse_text", identificatie |-> "parse_identificatie",
   aggregatieniveau |-> "parse_begrip", classificatie |-> "parse_begrip",
   trefwoord |-> "parse_text", omschrijving |-> "parse_text",
   raadpleeglocatie |-> "parse_raadpleeglocatie", dekkingInTijd |-> "parse_dekking_in_tijd",
   dekkingInRuimte |-> "parse_verwijzing", taal |-> "parse_text", event |-> "parse_event",
   waardering |-> "parse_begrip", bewaartermijn |-> "parse_termijn",
   informatiecategorie |-> "parse_begrip", isOnderdeelVan |-> "parse_verwijzing",
   bevatOnderdeel |-> "parse_verwijzing", heeftRepresentatie |-> "parse_verwijzing",
   aanvullendeMetagegevens |-> "parse_verwijzing",
   gerelateerdInformatieobject |-> "parse_gerelateerd_informatieobject",
   archiefvormer |-> "parse_verwijzing", betrokkene |-> "parse_betrokkene",
   activiteit |-> "parse_verwijzing", beperkingGebruik |-> "parse_beperking"]

bestand_parsers ==
  [naam |-> "parse_text", identificatie |-> "parse_identificatie", omvang |-> "parse_int",
   checksum |-> "parse_checksum", bestandsformaat |-> "parse_begrip",
   URLBestand |-> "parse_text", isRepresentatieVan |-> "parse_verwijzing"]

\* a one-item bucket is left as a list
Mutant_collapse(value) == IF Len(value) = 0 THEN None ELSE PyList(value)

\* the cleanup of one constructor argument in elem_to_mdto: an empty
\* bucket becomes None, a one-item bucket its item, a longer one stays a list
collapse(value) ==
  IF Len(value) = 0 THEN None
  ELSE IF Len(value) = 1 THEN value[1]
  ELSE PyList(value)


RECURSIVE xml_parser(_, _), elem_to_mdto(_, _, _)

\* the end of elem_to_mdto, given what each child parsed to: the first
\* exception of the loop, or the instance made of the collapsed buckets
cleanup(elem, mdto_class, mdto_xml_parsers, parsed) ==
  LET failed == {i \in 1..Len(elem) : Raised(parsed[i])}
      constructor_args ==
        [mdto_field \in DOMAIN mdto_xml_parsers |->
           Pick(parsed, {i \in 1..Len(elem) : removeprefix(elem[i]) = mdto_field})]
  IN IF failed # {} THEN parsed[Min(failed)]
     ELSE New(mdto_class, [argname \in DOMAIN mdto_xml_parsers |->
                             collapse(constructor_args[argname])])

\* elem_to_mdto(elem, mdto_class, mdto_xml_parsers); elem is iterated, so
\* it is given as the sequence of its child elements
elem_to_mdto(elem, mdto_class, mdto_xml_parsers) ==
  \* what the loop does with each child, in document order
  cleanup(elem, mdto_class, mdto_xml_parsers,
          << >> \o [i \in 1..Len(elem) |->
            IF removeprefix(elem[i]) \notin DOMAIN mdto_xml_parsers
            THEN Raise("KeyError")
            ELSE xml_parser(mdto_xml_parsers[removeprefix(elem[i])], elem[i])])

\* the parser functions of from_xml, by name
xml_parser(name, node) ==
  CASE name = "parse_text" -> parse_text(node)
    [] name = "parse_int" -> parse_int(node)
    [] name = "parse_identificatie" -> parse_identificatie(node)
    [] name = "parse_verwijzing" -> parse_verwijzing(node)
    [] name = "parse_begrip" ->
         elem_to_mdto(node.children, "BegripGegevens", begrip_parsers)
    [] name = "parse_termijn" ->
         elem_to_mdto(node.children, "TermijnGegevens", termijn_parsers)
    [] name = "parse_beperking" ->
         elem_to_mdto(node.children, "BeperkingGebruikGegevens", beperking_parsers)
    [] name = "parse_raadpleeglocatie" ->
         elem_to_mdto(node.children, "RaadpleeglocatieGegevens", raadpleeglocatie_parsers)
    [] name = "parse_dekking_in_tijd" ->
         elem_to_mdto(node.children, "DekkingInTijdGegevens", dekking_in_tijd_parsers)
    [] name = "parse_event" ->
         elem_to_mdto(node.children, "EventGegevens", event_parsers)
    [] name = "parse_gerelateerd_informatieobject" ->
         elem_to_mdto(node.children, "GerelateerdInformatieobjectGegevens",
                      gerelateerd_informatieobject_parsers)
    [] name = "parse_betrokkene" ->
         elem_to_mdto(node.children, "BetrokkeneGegevens", betrokkene_parsers)
    [] name = "parse_checksum" ->
         elem_to_mdto(node.children, "ChecksumGegevens", checksum_parsers)

parse_informatieobject(e) == elem_to_mdto(e, "Informatieobject", informatieobject_parsers)

parse_bestand(e) == elem_to_mdto(e, "Bestand", bestand_parsers)

\* from_xml that reads every root child it does not know as a bestand
Mutant_from_xml(root) ==
  IF Len(root.children) = 0 THEN Raise("IndexError")
  ELSE IF removeprefix(root.children[1]) = "informatieobject"
  THEN parse_informatieobject(root.children[1].children)
  ELSE parse_bestand(root.children[1].children)

\* from_xml, given the root element of the parsed document
from_xml(root) ==
  IF Len(root.children) = 0 THEN Raise("IndexError")
  ELSE LET children == root.children[1].children
           object_type == removeprefix(root.children[1])
       IN IF object_type = "informatieobject" THEN parse_informatieobject(children)
          ELSE IF object_type = "bestand" THEN parse_bestand(children)
          ELSE Raise("ValueError")

(***************************************************************************)
(* Writing and reading documents (lxml).  A written document is the tree   *)
(* as a parser reads it back: elements without a namespace of their own    *)
(* fall in the default namespace declared on the root.                     *)
(***************************************************************************)
RECURSIVE qualify(_, _)
qualify(elem, default_ns) ==
  [elem EXCEPT !.ns = IF @ = "" THEN default_ns ELSE @,
               !.children = [i \in 1..Len(elem.children) |->
                               qualify(elem.children[i], default_ns)]]

\* tree.write(file, xml_declaration=True, pretty_print=True, encoding="UTF-8")
ET_write(tree) ==
  [xml_declaration |-> TRUE, encoding |-> "UTF-8", root |-> qualify(tree, tree.nsmap.default)]

\* ET.parse(file).getroot()
ET_parse(content) == content.root

(***************************************************************************)
(* Sample instances from which the behaviours start                        *)
(***************************************************************************)
\* the fields that hold URLs
IsUrlField(name) == name \in {"URLBestand", "raadpleeglocatieOnline"}

SampleStr(name) == IF IsUrlField(name) THEN PyStr("https://www.example.com") ELSE PyStr("a")

\* the fields that hold the name of an object or of a reference
IsNameField(name) == name \in {"naam", "verwijzingNaam"}

\* a name of exactly MDTO_MAX_NAAM_LENGTH characters, and one character more
LongestName == "nnnnnnnnnnnnnnnnnnnnnnnnnnnnnnnnnnnnnnnnnnnnnnnnnnnnnnnnnnnnnnnnnnnnnnnnnnnnnnnn"

TooLongName == LongestName \o "n"

RECURSIVE Minimal(_)
\* an instance of cls with exactly its mandatory fields set, each to a
\* single valid value
Minimal(cls) ==
  LET fs == fields(cls)
  IN PyObj(cls, [n \in FieldNames(cls) |->
       LET fd == fs[CHOOSE i \in 1..Len(fs) : fs[i].name = n]
       IN IF fd.optional THEN None
          ELSE IF fd.type = "str" THEN SampleStr(n)
          ELSE IF fd.type = "int" THEN PyInt(7)
          ELSE Minimal(fd.type)])

RECURSIVE Full(_)
\* an instance of cls with every field set to a single valid value
Full(cls) ==
  LET fs == fields(cls)
  IN PyObj(cls, [n \in FieldNames(cls) |->
       LET fd == fs[CHOOSE i \in 1..Len(fs) : fs[i].name = n]
       IN IF fd.type = "str" THEN SampleStr(n)
          ELSE IF fd.type = "int" THEN PyInt(7)
          ELSE Full(fd.type)])

\* a valid value for the field
ValidValue(fd) ==
  IF fd.type = "str" THEN SampleStr(fd.name)
  ELSE IF fd.type = "int" THEN PyInt(7)
  ELSE Minimal(fd.type)

\* an Informatieobject as a caller builds it: the mandatory fields, a
\* repeated keyword, a consultation location and a retention period
RichInformatieobject ==
  LET m == Minimal("Informatieobject")
  IN [m EXCEPT !.f.trefwoord = PyList(<< PyStr("a"), PyStr("b") >>),
               !.f.raadpleeglocatie = Full("RaadpleeglocatieGegevens"),
               !.f.bewaartermijn = Full("TermijnGegevens")]

\* an Informatieobject whose optional aggregatieniveau holds a string
\* where a BegripGegevens is expected
MistypedInformatieobject ==
  [Minimal("Informatieobject") EXCEPT !.f.aggregatieniveau = PyStr("Dossier")]

BaseObjects ==
  {Full(cls) : cls \in ClassNames \ {"Informatieobject"}}
    \cup {Minimal("Informatieobject"), RichInformatieobject, Minimal("Bestand"),
          MistypedInformatieobject}

(***************************************************************************)
(* Attribute assignment by the caller: obj.a.b = value, obj.a[i].b = value *)
(***************************************************************************)
\* the number of assignments a caller makes to an instance
MaxAssign == 1

AttrStep(name) == [attr |-> name]
ItemStep(i) == [item |-> i]

RECURSIVE Paths(_)
\* the attribute paths that exist below a value
Paths(v) ==
  IF v.k = "obj"
  THEN UNION {{<< AttrStep(n) >>} \cup {<< AttrStep(n) >> \o p : p \in Paths(v.f[n])}
                : n \in DOMAIN v.f}
  ELSE IF v.k = "list"
  THEN UNION {{<< ItemStep(i) >> \o p : p \in Paths(v.items[i])} : i \in 1..Len(v.items)}
  ELSE {}

RECURSIVE GetAt(_, _)
GetAt(v, path) ==
  IF path = << >> THEN v
  ELSE IF "attr" \in DOMAIN Head(path) THEN GetAt(v.f[Head(path).attr], Tail(path))
  ELSE GetAt(v.items[Head(path).item], Tail(path))

RECURSIVE SetAt(_, _, _)
SetAt(v, path, new) ==
  IF path = << >> THEN new
  ELSE IF "attr" \in DOMAIN Head(path)
  THEN [v EXCEPT !.f[Head(path).attr] = SetAt(@, Tail(path), new)]
  ELSE [v EXCEPT !.items[Head(path).item] = SetAt(@, Tail(path), new)]

FieldOf(cls, name) ==
  LET fs == fields(cls) IN fs[CHOOSE i \in 1..Len(fs) : fs[i].name = name]

\* the descriptor of the attribute a path ends in
DescAt(v, path) ==
  LET owner == GetAt(v, SubSeq(path, 1, Len(path) - 1))
  IN FieldOf(owner.cls, path[Len(path)].attr)

\* a value of another type than the expected one
WrongType(type) ==
  IF type = "str" THEN PyInt(7)
  ELSE IF type = "int" THEN PyStr("7")
  ELSE IF type = "IdentificatieGegevens" THEN Minimal("VerwijzingGegevens")
  ELSE Minimal("IdentificatieGegevens")

\* an instance of the expected class that does not pass validate() itself
Broken(type) ==
  IF type = "RaadpleeglocatieGegevens"
  THEN New(type, [raadpleeglocatieOnline |-> PyStr("hppts://www.example.com")])
  ELSE IF type = "TermijnGegevens"
  THEN New(type, [termijnLooptijd |-> PyInt(7)])
  ELSE LET fs == fields(type)
           first == fs[CHOOSE i \in 1..Len(fs) :
                         ~fs[i].optional /\ \A j \in 1..(i - 1) : fs[j].optional]
       IN [Minimal(type) EXCEPT !.f[first.name] = None]

\* the values a caller assigns to an attribute
Candidates(fd) ==
  {None, WrongType(fd.type), PyList(<< >>)}
    \cup (IF fd.type = "str"
          THEN {SampleStr(fd.name), PyStr(""), PyList(<< PyStr("a"), PyStr("b") >>),
                PyList(<< PyStr("a"), PyInt(7) >>)}
                 \cup (IF IsUrlField(fd.name)
                       THEN {PyStr("hppts://www.example.com"),
                             PyList(<< PyStr("https://www.example.com"),
                                       PyStr("hppts://www.example.com") >>)}
                       ELSE {})
                 \cup (IF IsNameField(fd.name)
                       THEN {PyStr(LongestName), PyStr(TooLongName)}
                       ELSE {})
          ELSE IF fd.type = "int"
          THEN {PyInt(7), PyInt(0), PyList(<< PyInt(7), PyInt(0) >>)}
          ELSE {Minimal(fd.type), Broken(fd.type),
                PyList(<< Minimal(fd.type), Full(fd.type) >>),
                PyList(<< Minimal(fd.type), Broken(fd.type) >>),
                PyList(<< Minimal(fd.type), WrongType(fd.type) >>)})

(***************************************************************************)
(* Object.save, Object.to_bytes and Object.to_string                       *)
(***************************************************************************)
\* what a caller hands to save(): a path, a binary file (BufferedIOBase), a
\* text-mode file (its buffer.raw is used) or a file-like object that is
\* neither (no buffer attribute)
TargetKinds == {"path", "BufferedIOBase", "TextIOWrapper", "StringIO"}

NoContent == [written |-> FALSE]

\* save() that encodes and writes first and validates afterwards
Mutant_write_then_validate(content, xml, v) ==
  IF Raised(xml)
  THEN [calls |-> << "to_xml" >>, raised |-> xml, content |-> content,
        log |-> << >>]
  ELSE [calls |-> << "to_xml", "write", "validate" >>, raised |-> v.err,
        content |-> ET_write(xml), log |-> v.log]

Mutant_Object_save(self, target, content) ==
  Mutant_write_then_validate(content, top_to_xml(self), validate(self))

\* tree.write(...) once to_xml() gave xml; log holds what validate() logged
write(content, xml, log) ==
  IF Raised(xml)
  THEN [calls |-> << "validate", "to_xml" >>, raised |-> xml, content |-> content,
        log |-> log]
  ELSE [calls |-> << "validate", "to_xml", "write" >>, raised |-> NoErr,
        content |-> ET_write(xml), log |-> log]

\* save() once self.validate() gave v
validated(self, content, v) ==
  IF v.err # NoErr
  THEN [calls |-> << "validate" >>, raised |-> v.err, content |-> content,
        log |-> v.log]
  ELSE write(content, top_to_xml(self), v.log)

\* Object.save(file_or_filename): the calls made in order, the exception
\* raised (NoErr for none), the content of the target afterwards and the
\* warnings logged on the way
Object_save(self, target, content) ==
  IF target = "StringIO"
  THEN [calls |-> << >>, raised |-> Raise("AttributeError"), content |-> content,
        log |-> << >>]
  ELSE validated(self, content, validate(self))

\* bio.getvalue() after save() into the buffer gave r
getvalue(r) ==
  [calls |-> r.calls, raised |-> r.raised, log |-> r.log,
   result |-> IF r.raised = NoErr THEN r.content ELSE NoContent]

\* Object.to_bytes(): save() into a fresh BytesIO, then read it back
Object_to_bytes(self) == getvalue(Object_save(self, "BufferedIOBase", NoContent))

\* Object.to_string(): to_bytes() decoded
Object_to_string(self) == Object_to_bytes(self)

(***************************************************************************)
(* utilities.pronominfo.  What it sees of the system it runs on is a       *)
(* record: environ is the value of the environment variable PRONOM_BACKEND *)
(* (None when unset), installed the programs shutil.which finds, path what *)
(* the path handed to it is: "missing", a "directory", a file whose format *)
(* the backends identify or one they do not.  Its outcome is the backends  *)
(* it ran, in order, and the value returned or the exception raised.       *)
(***************************************************************************)
Programs == {"sf", "fido"}

PathKinds == {"missing", "directory", "identified", "unidentified"}

BackendNames ==
  {None, PyStr("sf"), PyStr("siegfried"), PyStr("fido"), PyStr("droid"), PyStr("")}

System(environ, installed, path) ==
  [environ |-> environ, installed |-> installed, path |-> path]

\* nothing set, nothing installed, no file
BareSystem == System(None, {}, "missing")

os_path_isfile(sys) == sys.path \in {"identified", "unidentified"}

shutil_which(sys, program) == program \in sys.installed

Ran(invoked, result) == [invoked |-> invoked, result |-> result]

\* the BegripGegevens both backends build from the first match
PronomMatch ==
  New("BegripGegevens",
      [begripLabel |-> PyStr("Acrobat PDF 1.4 - Portable Document Format"),
       begripCode |-> PyStr("fmt/18"),
       begripBegrippenlijst |->
         New("VerwijzingGegevens", [verwijzingNaam |-> PyStr("PRONOM-register")])])

\* _pronominfo_fido: runs fido; no match is a RuntimeError
pronominfo_fido(sys) ==
  Ran(<< "fido" >>,
      IF sys.path = "identified" THEN PronomMatch ELSE Raise("RuntimeError"))

\* _pronominfo_siegfried: runs sf; the match UNKNOWN is a RuntimeError
pronominfo_siegfried(sys) ==
  Ran(<< "sf" >>,
      IF sys.path = "identified" THEN PronomMatch ELSE Raise("RuntimeError"))

\* pronominfo that falls back to the other backend when the chosen one is
\* not installed
Mutant_use_backend(sys, pronom_backend) ==
  IF pronom_backend = None THEN Ran(<< >>, Raise("RuntimeError"))
  ELSE IF pronom_backend \in {PyStr("sf"), PyStr("siegfried")}
  THEN IF shutil_which(sys, "sf") THEN pronominfo_siegfried(sys)
       ELSE IF shutil_which(sys, "fido") THEN pronominfo_fido(sys)
       ELSE Ran(<< >>, Raise("RuntimeError"))
  ELSE IF shutil_which(sys, "fido") THEN pronominfo_fido(sys)
       ELSE IF shutil_which(sys, "sf") THEN pronominfo_siegfried(sys)
       ELSE Ran(<< >>, Raise("RuntimeError"))

\* pronominfo from the point where pronom_backend has its default filled
\* in; None stands for neither program having been found
use_backend(sys, pronom_backend) ==
  IF pronom_backend = None THEN Ran(<< >>, Raise("RuntimeError"))
  ELSE IF pronom_backend \in {PyStr("sf"), PyStr("siegfried")}
  THEN IF ~shutil_which(sys, "sf") THEN Ran(<< >>, Raise("RuntimeError"))
       ELSE pronominfo_siegfried(sys)
  ELSE IF ~shutil_which(sys, "fido") THEN Ran(<< >>, Raise("RuntimeError"))
       ELSE pronominfo_fido(sys)

\* the backend chosen when PRONOM_BACKEND is not set
default_backend(sys) ==
  IF shutil_which(sys, "sf") THEN PyStr("sf")
  ELSE IF shutil_which(sys, "fido") THEN PyStr("fido")
  ELSE None

\* utilities.pronominfo(file)
pronominfo(sys) ==
  IF ~os_path_isfile(sys) THEN Ran(<< >>, Raise("TypeError"))
  ELSE IF sys.environ # None
          /\ sys.environ \notin {PyStr("fido"), PyStr("siegfried"), PyStr("sf")}
  THEN Ran(<< >>, Raise("ValueError"))
  ELSE use_backend(sys, IF sys.environ = None THEN default_backend(sys) ELSE sys.environ)

(***************************************************************************)
(* The state: the instance the caller holds, the number of assignments     *)
(* made to it, the content of the file save() writes to, the document      *)
(* from_xml reads, the system pronominfo runs on, and the last operation   *)
(* with its outcome.                                                       *)
(***************************************************************************)
VARIABLES obj, nassign, file, doc, nedit, os, heap, frames, last

\* no instance graph is held outside the graph specification
NoHeap == << >>

vars == << obj, nassign, file, doc, nedit, os, heap, frames, last >>

\* no document at hand
NoDoc == Element("", "", << >>)

IsTopLevel(o) == o.cls \in {"Informatieobject", "Bestand"}

Init ==
  /\ obj \in BaseObjects
  /\ nassign = 0
  /\ file = NoContent
  /\ doc = NoDoc
  /\ nedit = 0
  /\ os = BareSystem
  /\ heap = NoHeap
  /\ frames = << >>
  /\ last = [op |-> "construct"]

\* obj.<path> = value
Assign ==
  /\ nassign < MaxAssign
  /\ \E path \in Paths(obj) : \E value \in Candidates(DescAt(obj, path)) :
       obj' = SetAt(obj, path, value)
  /\ nassign' = nassign + 1
  /\ last' = [op |-> "assign"]
  /\ UNCHANGED << file, doc, nedit, os, heap, frames >>

\* a validate() that clears the empty fields it passes over
Mutant_Validate ==
  /\ last' = [op |-> "validate", outcome |-> validate(obj)]
  /\ obj' = PyObj(obj.cls, [n \in DOMAIN obj.f |->
                               IF Truthy(obj.f[n]) THEN obj.f[n] ELSE None])
  /\ UNCHANGED << nassign, file, doc, nedit, os, heap, frames >>

\* obj.validate()
Validate ==
  /\ last' = [op |-> "validate", outcome |-> validate(obj)]
  /\ UNCHANGED << obj, nassign, file, doc, nedit, os, heap, frames >>

\* the root names with which a caller encodes a data group
RootName(cls) ==
  CASE cls = "ChecksumGegevens" -> "checksum"
    [] cls = "BeperkingGebruikGegevens" -> "beperkingGebruik"
    [] cls = "DekkingInTijdGegevens" -> "dekkingInTijd"
    [] cls = "EventGegevens" -> "event"
    [] cls = "RaadpleeglocatieGegevens" -> "raadpleeglocatie"
    [] cls = "GerelateerdInformatieobjectGegevens" -> "gerelateerdInformatieobject"
    [] cls = "BetrokkeneGegevens" -> "betrokkene"
    [] OTHER -> "root"

\* obj.to_xml()
ToXml ==
  /\ obj # None
  /\ last' = [op |-> "to_xml",
              tree |-> IF IsTopLevel(obj) THEN top_to_xml(obj)
                       ELSE Serializable_to_xml(obj, RootName(obj.cls))]
  /\ UNCHANGED << obj, nassign, file, doc, nedit, os, heap, frames >>

\* the state after save(target) ended as r
Saved(target, r) ==
  /\ file' = r.content
  /\ last' = [op |-> "save", target |-> target, calls |-> r.calls,
              raised |-> r.raised, log |-> r.log]

\* obj.save(target)
Save ==
  /\ IsTopLevel(obj)
  /\ \E target \in TargetKinds : Saved(target, Object_save(obj, target, file))
  /\ UNCHANGED << obj, nassign, doc, nedit, os, heap, frames >>

\* the state after to_bytes() or to_string() ended as r
Returned(op, r) ==
  last' = [op |-> op, calls |-> r.calls, raised |-> r.raised, log |-> r.log,
           result |-> r.result]

\* obj.to_bytes() and obj.to_string()
ToBytes ==
  /\ IsTopLevel(obj)
  /\ \E op \in {"to_bytes", "to_string"} :
       Returned(op, IF op = "to_bytes" THEN Object_to_bytes(obj) ELSE Object_to_string(obj))
  /\ UNCHANGED << obj, nassign, file, doc, nedit, os, heap, frames >>

Next == Assign \/ Validate \/ ToXml

Spec == Init /\ [][Next]_vars

(***************************************************************************)
(* Saving: a caller builds a top-level object, assigns to it and saves it  *)
(***************************************************************************)
InitSave ==
  /\ obj \in {Minimal("Informatieobject"), RichInformatieobject, Minimal("Bestand")}
  /\ nassign = 0
  /\ file = NoContent
  /\ doc = NoDoc
  /\ nedit = 0
  /\ os = BareSystem
  /\ heap = NoHeap
  /\ frames = << >>
  /\ last = [op |-> "construct"]

NextSave == Assign \/ Save \/ ToBytes

SpecSave == InitSave /\ [][NextSave]_vars

(***************************************************************************)
(* Reading: a document is prepared (a canonical MDTO document, edited by   *)
(* hand), read with from_xml and encoded again                             *)
(***************************************************************************)
\* the number of edits made to a document before it is read
MaxEdit == 1

RECURSIVE ElemPaths(_)
\* the positions of the elements below an element: sequences of child indices
ElemPaths(e) ==
  UNION {{<< i >>} \cup {<< i >> \o p : p \in ElemPaths(e.children[i])}
           : i \in 1..Len(e.children)}

RECURSIVE ElemAt(_, _)
ElemAt(e, path) == IF path = << >> THEN e ELSE ElemAt(e.children[Head(path)], Tail(path))

RECURSIVE ReplaceAt(_, _, _)
ReplaceAt(e, path, new) ==
  IF path = << >> THEN new
  ELSE [e EXCEPT !.children[Head(path)] = ReplaceAt(@, Tail(path), new)]

Front(seq) == SubSeq(seq, 1, Len(seq) - 1)
Last(seq) == seq[Len(seq)]

\* the element at parent gets new children; left without children it is
\* written as an empty element
WithChildren(root, parent, children) ==
  LET e == ElemAt(root, parent)
  IN ReplaceAt(root, parent,
       [e EXCEPT !.children = children,
                 !.text = IF children = << >> THEN "" ELSE @])

DeleteAt(root, path) ==
  LET ch == ElemAt(root, Front(path)).children
      i == Last(path)
  IN WithChildren(root, Front(path), SubSeq(ch, 1, i - 1) \o SubSeq(ch, i + 1, Len(ch)))

InsertAt(root, parent, i, new) ==
  LET ch == ElemAt(root, parent).children
  IN WithChildren(root, parent, SubSeq(ch, 1, i - 1) \o << new >> \o SubSeq(ch, i, Len(ch)))

DuplicateAt(root, path) == InsertAt(root, Front(path), Last(path), ElemAt(root, path))

SwapAt(root, path) ==
  LET ch == ElemAt(root, Front(path)).children
      i == Last(path)
  IN WithChildren(root, Front(path),
       [k \in 1..Len(ch) |-> IF k = i THEN ch[i + 1] ELSE IF k = i + 1 THEN ch[i] ELSE ch[k]])

\* the texts typed into an element: nothing, another word, a number with a
\* leading zero
EditTexts == {"", "b", "07"}

\* the entity type an element of the document is decoded as ("str" and
\* "int" for text elements, "" where the decoder knows no such element)
RECURSIVE ElemType(_, _)
ElemType(root, path) ==
  IF path = << >> THEN ""
  ELSE IF Len(path) = 1
  \* from_xml decodes root[0] and no other child of the root
  THEN (IF path[1] # 1 THEN ""
        ELSE IF removeprefix(root.children[1]) = "informatieobject" THEN "Informatieobject"
        ELSE IF removeprefix(root.children[1]) = "bestand" THEN "Bestand" ELSE "")
  ELSE LET owner == ElemType(root, Front(path))
       IN IF owner \in ClassNames /\ removeprefix(ElemAt(root, path)) \in FieldNames(owner)
          THEN FieldOf(owner, ElemAt(root, path).tag).type
          ELSE ""

\* the elements a hand adds below the top-level element: one for each
\* field of its type, holding a valid value
NewFieldElems(cls) ==
  {qualify(process_dataclass_field(fd.name, ValidValue(fd)).elems[1], MDTO_NS)
     : fd \in Range(fields(cls))}

\* the documents one edit away from a document
Edits(root) ==
  LET paths == ElemPaths(root)
      top == IF root.children = << >> THEN "" ELSE ElemType(root, << 1 >>)
  IN {DeleteAt(root, p) : p \in paths}
       \cup {DuplicateAt(root, p) : p \in paths}
       \cup {SwapAt(root, p) : p \in {q \in paths : << >> \o Front(q) \o << Last(q) + 1 >> \in paths}}
       \cup {ReplaceAt(root, p, [ElemAt(root, p) EXCEPT !.text = t])
               : p \in {q \in paths : ElemAt(root, q).children = << >>}, t \in EditTexts}
       \cup {ReplaceAt(root, p, [ElemAt(root, p) EXCEPT !.tag = "onbekend"]) : p \in paths}
       \cup {ReplaceAt(root, p, [ElemAt(root, p) EXCEPT !.ns = "urn:other"]) : p \in paths}
       \cup (IF top = "" THEN {}
             ELSE {InsertAt(root, << 1 >>, i, e)
                     : i \in 1..(Len(root.children[1].children) + 1), e \in NewFieldElems(top)})

\* the document a saved object makes, as from_xml parses it
Document(o) == ET_parse(ET_write(top_to_xml(o)))

BaseDocuments == {Document(RichInformatieobject), Document(Full("Bestand"))}

InitXml ==
  /\ obj = None
  /\ nassign = 0
  /\ file = NoContent
  /\ doc \in BaseDocuments
  /\ nedit = 0
  /\ os = BareSystem
  /\ heap = NoHeap
  /\ frames = << >>
  /\ last = [op |-> "parse"]

\* the document is edited before it is read; the editor keeps the tab
\* indentation of the format
EditDoc ==
  /\ nedit < MaxEdit
  /\ last.op \in {"parse", "edit"}
  /\ \E new \in Edits(doc) : doc' = indent(new, 0)
  /\ nedit' = nedit + 1
  /\ last' = [op |-> "edit"]
  /\ UNCHANGED << obj, nassign, file, os, heap, frames >>

\* the state after from_xml ended as result
Read(result) ==
  /\ last' = [op |-> "from_xml", result |-> result]
  /\ obj' = IF Raised(result) THEN None ELSE result

\* obj = mdto.from_xml(doc)
FromXml ==
  /\ obj = None
  /\ Read(from_xml(doc))
  /\ UNCHANGED << nassign, file, doc, nedit, os, heap, frames >>

NextXml == EditDoc \/ FromXml \/ ToXml

SpecXml == InitXml /\ [][NextXml]_vars

(***************************************************************************)
(* Detecting a file's format: the environment is set up (PRONOM_BACKEND is *)
(* set or unset, programs are installed or removed, the path is made a     *)
(* file, a directory or nothing) and pronominfo is called                  *)
(***************************************************************************)
InitPronom ==
  /\ obj = None
  /\ nassign = 0
  /\ file = NoContent
  /\ doc = NoDoc
  /\ nedit = 0
  /\ os = BareSystem
  /\ heap = NoHeap
  /\ frames = << >>
  /\ last = [op |-> "construct"]

\* os.environ["PRONOM_BACKEND"] = value, or del os.environ["PRONOM_BACKEND"]
Setenv ==
  /\ \E value \in BackendNames \ {os.environ} : os' = [os EXCEPT !.environ = value]
  /\ last' = [op |-> "setenv"]
  /\ UNCHANGED << obj, nassign, file, doc, nedit, heap, frames >>

\* a backend program is installed or removed
Install ==
  /\ \E program \in Programs :
       os' = [os EXCEPT !.installed =
                IF program \in @ THEN @ \ {program} ELSE @ \cup {program}]
  /\ last' = [op |-> "install"]
  /\ UNCHANGED << obj, nassign, file, doc, nedit, heap, frames >>

\* the path is created, replaced or removed
Touch ==
  /\ \E kind \in PathKinds \ {os.path} : os' = [os EXCEPT !.path = kind]
  /\ last' = [op |-> "touch"]
  /\ UNCHANGED << obj, nassign, file, doc, nedit, heap, frames >>

\* the state after pronominfo(file) ended as r
Detected(r) ==
  /\ obj' = IF Raised(r.result) THEN obj ELSE r.result
  /\ last' = [op |-> "pronominfo", invoked |-> r.invoked, result |-> r.result]

\* obj = pronominfo(file)
Pronominfo ==
  /\ Detected(pronominfo(os))
  /\ UNCHANGED << nassign, file, doc, nedit, os, heap, frames >>

NextPronom == Setenv \/ Install \/ Touch \/ Pronominfo

SpecPronom == InitPronom /\ [][NextPronom]_vars

(***************************************************************************)
(* validate() on a graph of instances.  Assignment can make any instance   *)
(* the value of any field of any other, so the instances live in a heap    *)
(* and fields hold references; the calls of validate() in progress are the *)
(* frames of the call stack, each at one field of its instance.            *)
(***************************************************************************)
\* the most assignments made to the graph
MaxLink == 1

\* a field holding the instance at heap[id]
Ref(id) == [k |-> "ref", id |-> id]

IsRef(v) == v.k = "ref"

\* a valid BeperkingGebruikGegevens with its parts as instances of their own
Graph ==
  << New("BeperkingGebruikGegevens",
         [beperkingGebruikType |-> Ref(3), beperkingGebruikTermijn |-> Ref(2)]),
     New("TermijnGegevens", [termijnTriggerStartLooptijd |-> Ref(3)]),
     New("BegripGegevens", [begripLabel |-> PyStr("a"), begripBegrippenlijst |-> Ref(4)]),
     New("VerwijzingGegevens",
         [verwijzingNaam |-> PyStr("a"), verwijzingIdentificatie |-> Ref(5)]),
     New("IdentificatieGegevens",
         [identificatieKenmerk |-> PyStr("a"), identificatieBron |-> PyStr("a")]) >>

\* what type() and isinstance() see of a value: the class of an instance, not
\* its fields
View(v) ==
  CASE v.k = "ref" -> PyObj(heap[v.id].cls, << >>)
    [] v.k = "list" -> PyList([i \in 1..Len(v.items) |->
                         IF v.items[i].k = "ref" THEN PyObj(heap[v.items[i].id].cls, << >>)
                         ELSE v.items[i]])
    [] OTHER -> v

\* a validate() call in progress: the instance, the field the loop is at,
\* and the warnings logged so far
Frame(id, i, log) == [id |-> id, i |-> i, log |-> log]

\* a validator that descends into every instance it meets
Mutant_descends(field, field_value) == IsRef(field_value)

\* field_value.validate() is called: a single value that is an instance of
\* the expected type and a Serializable
descends(field, field_value) ==
  IsRef(field_value) /\ heap[field_value.id].cls = field.type

\* what the validate() override of the class does after super().validate()
class_checks(self, r) ==
  CASE self.cls = "VerwijzingGegevens" -> VerwijzingGegevens_checks(self, r)
    [] self.cls = "RaadpleeglocatieGegevens" -> RaadpleeglocatieGegevens_checks(self, r)
    [] self.cls = "Informatieobject" -> Object_checks(self, r)
    [] self.cls = "Bestand" -> Bestand_checks(self, Object_checks(self, r))
    [] OTHER -> r

RECURSIVE unwind(_, _)
\* an exception leaving the callee passes through the except clause of
\* every caller on the stack
unwind(callers, r) ==
  IF callers = << >> THEN r
  ELSE LET caller == callers[Len(callers)]
           cls == heap[caller.id].cls
           b == bubble(cls, fields(cls)[caller.i].name, r)
       IN unwind(SubSeq(callers, 1, Len(callers) - 1), Outcome(b.err, caller.log \o b.log))

InitGraph ==
  /\ obj = None
  /\ nassign = 0
  /\ file = NoContent
  /\ doc = NoDoc
  /\ nedit = 0
  /\ os = BareSystem
  /\ heap = Graph
  /\ frames = << >>
  /\ last = [op |-> "construct"]

\* heap[i].<name> = heap[j], or [heap[j]]
Link ==
  /\ frames = << >>
  /\ nassign < MaxLink
  /\ \E i \in DOMAIN heap, j \in DOMAIN heap :
       \E name \in FieldNames(heap[i].cls), value \in {Ref(j), PyList(<< Ref(j) >>)} :
         heap' = [heap EXCEPT ![i].f[name] = value]
  /\ nassign' = nassign + 1
  /\ last' = [op |-> "assign"]
  /\ UNCHANGED << obj, file, doc, nedit, os, frames >>

\* heap[i].validate() is called
Call ==
  /\ frames = << >>
  /\ \E i \in DOMAIN heap : frames' = << Frame(i, 1, << >>) >>
  /\ last' = [op |-> "call"]
  /\ UNCHANGED << obj, nassign, file, doc, nedit, os, heap >>

\* the innermost validate() call checks its next field, or returns
Step ==
  /\ frames # << >>
  /\ LET depth == Len(frames)
         top == frames[depth]
         callers == SubSeq(frames, 1, depth - 1)
         self == heap[top.id]
         fs == fields(self.cls)
         raise(r) == /\ frames' = << >>
                     /\ last' = [op |-> "validate", outcome |-> unwind(callers, r)]
         return(r) ==
           IF r.err # NoErr THEN raise(r)
           ELSE IF depth = 1
           THEN /\ frames' = << >>
                /\ last' = [op |-> "validate", outcome |-> r]
           ELSE /\ frames' = Append(SubSeq(frames, 1, depth - 2),
                               Frame(frames[depth - 1].id, frames[depth - 1].i + 1,
                                     frames[depth - 1].log \o r.log))
                /\ UNCHANGED last
     IN IF top.i > Len(fs) THEN return(class_checks(self, Outcome(NoErr, top.log)))
        ELSE IF descends(fs[top.i], self.f[fs[top.i].name])
        THEN /\ frames' = Append(frames, Frame(self.f[fs[top.i].name].id, 1, << >>))
             /\ UNCHANGED last
        ELSE LET r == Serializable_validate_field(self.cls, fs[top.i],
                                                  View(self.f[fs[top.i].name]))
             IN IF r.err # NoErr THEN raise(Outcome(r.err, top.log \o r.log))
                ELSE /\ frames' = Append(callers, Frame(top.id, top.i + 1, top.log \o r.log))
                     /\ UNCHANGED last
  /\ UNCHANGED << obj, nassign, file, doc, nedit, os, heap >>

NextGraph == Link \/ Call \/ Step

\* a call that has started keeps running until it returns or raises
SpecGraph == InitGraph /\ [][NextGraph]_vars /\ WF_vars(Step)

(***************************************************************************)
(* Properties of the decoder                                               *)
(***************************************************************************)
Body(tree) == IF tree.tag = "MDTO" THEN tree.children[1] ELSE tree

Tags(elem) == [i \in 1..Len(elem.children) |-> elem.children[i].tag]

IndexIn(seq, x) == CHOOSE i \in 1..Len(seq) : seq[i] = x

\* the tags occur in the order of `order`, repeats of one tag adjacent
InOrder(tags, order) ==
  /\ \A i \in 1..Len(tags) : tags[i] \in Range(order)
  /\ \A i, j \in 1..Len(tags) : i < j => IndexIn(order, tags[i]) <= IndexIn(order, tags[j])

Names(fs) == [i \in 1..Len(fs) |-> fs[i].name]

\* the wire order of <informatieobject> in the MDTO schema
InformatieobjectWireOrder ==
  << "identificatie", "naam", "aggregatieniveau", "classificatie", "trefwoord",
     "omschrijving", "raadpleeglocatie", "dekkingInTijd", "dekkingInRuimte", "taal",
     "event", "waardering", "bewaartermijn", "informatiecategorie", "isOnderdeelVan",
     "bevatOnderdeel", "heeftRepresentatie", "aanvullendeMetagegevens",
     "gerelateerdInformatieobject", "archiefvormer", "betrokkene", "activiteit",
     "beperkingGebruik" >>

Decoded == last.op = "from_xml" /\ ~Raised(last.result)

\* the schema's order of the children of an element of type cls
SchemaOrder(cls) ==
  IF cls = "Informatieobject" THEN InformatieobjectWireOrder
  ELSE Names(mdto_ordered_fields(cls))

RECURSIVE ConformantElem(_, _)
\* elem is a conformant element of type cls: only elements of the type's
\* fields, in schema order, every mandatory one present, a field that does
\* not repeat present at most once, text elements without children, and
\* nothing but child elements in an element of an entity type
ConformantElem(elem, cls) ==
  LET ch == elem.children
      count(n) == Cardinality({i \in 1..Len(ch) : ch[i].tag = n})
  IN /\ elem.ns = MDTO_NS
     /\ IF cls \in {"str", "int"}
        THEN ch = << >>
        ELSE /\ ch = << >> => elem.text = ""
             /\ InOrder(Tags(elem), SchemaOrder(cls))
             /\ \A fd \in Range(fields(cls)) :
                  /\ ~fd.optional => count(fd.name) >= 1
                  /\ fd.origin = "plain" => count(fd.name) <= 1
             /\ \A i \in 1..Len(ch) :
                  ConformantElem(ch[i], FieldOf(cls, ch[i].tag).type)

\* a conformant MDTO document: the root MDTO holds one informatieobject or
\* one bestand, conformant at every level
Conformant(root) ==
  /\ root.tag = "MDTO" /\ root.ns = MDTO_NS /\ Len(root.children) = 1
  /\ ElemType(root, << 1 >>) # ""
  /\ ConformantElem(root.children[1], ElemType(root, << 1 >>))

RECURSIVE Shape(_)
\* the element names, nesting and text values of a tree
Shape(elem) ==
  [tag |-> elem.tag, text |-> elem.text,
   children |-> [i \in 1..Len(elem.children) |-> Shape(elem.children[i])]]

\* C1: for every conformant MDTO document that from_xml accepts (root child
\* informatieobject or bestand, child elements in schema order at every
\* level), the tree that to_xml makes of the decoded object has the same
\* element names, nesting and text values as the document
C1_RoundTrip ==
  (last.op = "to_xml" /\ doc # NoDoc /\ Conformant(doc)) =>
    /\ ~Raised(last.tree)
    /\ Shape(last.tree) = Shape(doc)

\* the children of an element with the tag n, in document order
Tagged(children, n) == Pick(children, {i \in 1..Len(children) : children[i].tag = n})

\* the dispatch table that decodes an entity type
ParsersOf(cls) ==
  CASE cls = "BegripGegevens" -> begrip_parsers
    [] cls = "TermijnGegevens" -> termijn_parsers
    [] cls = "BeperkingGebruikGegevens" -> beperking_parsers
    [] cls = "RaadpleeglocatieGegevens" -> raadpleeglocatie_parsers
    [] cls = "DekkingInTijdGegevens" -> dekking_in_tijd_parsers
    [] cls = "EventGegevens" -> event_parsers
    [] cls = "GerelateerdInformatieobjectGegevens" -> gerelateerd_informatieobject_parsers
    [] cls = "BetrokkeneGegevens" -> betrokkene_parsers
    [] cls = "ChecksumGegevens" -> checksum_parsers
    [] cls = "Informatieobject" -> informatieobject_parsers
    [] cls = "Bestand" -> bestand_parsers

ViaDispatchTable == ClassNames \ {"IdentificatieGegevens", "VerwijzingGegevens"}

RECURSIVE Collapsed(_, _)
\* value is what one child element decodes to: the text of a text element,
\* an integer for omvang, an instance of the field's type otherwise, whose
\* own fields are collapsed when it is decoded through a dispatch table
ParsedFrom(child, value, type) ==
  IF type = "str" THEN value = node_text(child)
  ELSE IF type = "int" THEN value.k = "int"
  ELSE /\ value.k = "obj" /\ value.cls = type
       /\ type \in ViaDispatchTable => Collapsed(child.children, value)

\* every field of the instance o, decoded from children, holds None for no
\* child element of its name, the single parsed value for one, and the list
\* of the parsed values in document order for more
Collapsed(children, o) ==
  \A fd \in Range(fields(o.cls)) :
    LET elems == Tagged(children, fd.name)
        value == o.f[fd.name]
    IN CASE Len(elems) = 0 -> value = None
         [] Len(elems) = 1 -> ParsedFrom(elems[1], value, fd.type)
         [] OTHER -> /\ value.k = "list"
                     /\ Len(value.items) = Len(elems)
                     /\ \A i \in 1..Len(elems) : ParsedFrom(elems[i], value.items[i], fd.type)

\* C4: for every field of an entity decoded through a dispatch table, no
\* child element with the field's tag decodes the field to None, exactly one
\* to the single parsed value (not a list), and n >= 2 to a list of length n
\* whose items are in document order
C4_CardinalityCollapse ==
  Decoded => Collapsed(doc.children[1].children, last.result)

\* a document was decoded in which one field has no element, one has a single
\* element and one has two elements with different texts
C4_Witness ==
  /\ Decoded /\ nedit > 0
  /\ \E n1, n2, n3 \in FieldNames(last.result.cls) :
       LET children == doc.children[1].children
       IN /\ Len(Tagged(children, n1)) = 0
          /\ Len(Tagged(children, n2)) = 1
          /\ Len(Tagged(children, n3)) = 2
          /\ Tagged(children, n3)[1].text # Tagged(children, n3)[2].text
          /\ last.result.f[n3].k = "list"

(***************************************************************************)
(* Properties of the encoder's field order                                 *)
(***************************************************************************)
\* the element that holds the encoded fields: the child of <MDTO> for a
\* top-level object, the element itself for a data group
Encoded == last.op = "to_xml" /\ ~Raised(last.tree)

\* C2: whatever was assigned to the instance, the child elements to_xml
\* produces follow the order of the type's _mdto_ordered_fields; for an
\* Informatieobject that is the schema's order identificatie, naam,
\* aggregatieniveau, ..., activiteit, beperkingGebruik, and for a Bestand
\* URLBestand precedes isRepresentatieVan
C2_OrderNormalization ==
  Encoded =>
    LET tags == Tags(Body(last.tree))
    IN /\ InOrder(tags, Names(mdto_ordered_fields(obj.cls)))
       /\ obj.cls = "Informatieobject" => InOrder(tags, InformatieobjectWireOrder)
       /\ obj.cls = "Bestand" =>
            \A i, j \in 1..Len(tags) :
              tags[i] = "URLBestand" /\ tags[j] = "isRepresentatieVan" => i < j

\* an Informatieobject encoded after an assignment, with a field that the
\* declaration puts late and the schema early (waardering before archiefvormer)
C2_Witness ==
  /\ Encoded /\ nassign > 0 /\ obj.cls = "Informatieobject"
  /\ \E i, j \in 1..Len(Body(last.tree).children) :
       /\ i < j
       /\ Body(last.tree).children[i].tag = "waardering"
       /\ Body(last.tree).children[j].tag = "archiefvormer"

BothBegripFieldsSet ==
  /\ Encoded /\ obj.cls = "BegripGegevens"
  /\ obj.f.begripBegrippenlijst # None /\ obj.f.begripCode # None

\* C3 as stated: encoding a BegripGegevens that has begripBegrippenlijst and
\* begripCode set places begripBegrippenlijst before begripCode, and the
\* constructor takes the code before the list reference
C3_AsStated ==
  BothBegripFieldsSet =>
    /\ \A i, j \in 1..Len(last.tree.children) :
         last.tree.children[i].tag = "begripBegrippenlijst"
           /\ last.tree.children[j].tag = "begripCode" => i < j
    /\ IndexIn(Names(fields(obj.cls)), "begripCode")
         < IndexIn(Names(fields(obj.cls)), "begripBegrippenlijst")

\* C3, amended: encoding a BegripGegevens that has both set places
\* begripCode before begripBegrippenlijst, and the constructor takes the
\* list reference before the code
C3_CodeBeforeBegrippenlijst ==
  BothBegripFieldsSet =>
    /\ \A i, j \in 1..Len(last.tree.children) :
         last.tree.children[i].tag = "begripCode"
           /\ last.tree.children[j].tag = "begripBegrippenlijst" => i < j
    /\ IndexIn(Names(fields(obj.cls)), "begripBegrippenlijst")
         < IndexIn(Names(fields(obj.cls)), "begripCode")

\* a BegripGegevens with both fields set has been encoded
C3_Witness ==
  /\ BothBegripFieldsSet
  /\ \E i, j \in 1..Len(last.tree.children) :
       last.tree.children[i].tag = "begripCode"
         /\ last.tree.children[j].tag = "begripBegrippenlijst"

(***************************************************************************)
(* Properties of the validator                                             *)
(***************************************************************************)
Validated == last.op = "validate"

ValidatedOk == Validated /\ last.outcome.err = NoErr


\* the instance is valid but for what it holds at path
ValidButFor(o, path) == validate(SetAt(o, path, ValidValue(DescAt(o, path)))).err = NoErr

\* C5: on an instance that is valid but for one mandatory field holding None
\* or an empty value, validate() raises ValidationError with field_path
\* [type name, field name] and the mandatory-field message; and validate()
\* returns normally only if every mandatory field is non-empty
C5_MandatoryFieldDetection ==
  Validated =>
    /\ \A i \in 1..Len(fields(obj.cls)) :
         LET fd == fields(obj.cls)[i]
         IN ~fd.optional /\ ~Truthy(obj.f[fd.name]) /\ ValidButFor(obj, << AttrStep(fd.name) >>)
              => last.outcome.err = ValidationError(<< obj.cls, fd.name >>, MsgMandatory)
    /\ last.outcome.err = NoErr =>
         \A i \in 1..Len(fields(obj.cls)) :
           ~fields(obj.cls)[i].optional => Truthy(obj.f[fields(obj.cls)[i].name])

\* validate() has rejected an instance for an empty mandatory field
C5_Witness ==
  /\ Validated
  /\ last.outcome.err.kind = "ValidationError"
  /\ last.outcome.err.msg = MsgMandatory
  /\ Len(last.outcome.err.field_path) = 2
  /\ ~Truthy(obj.f[last.outcome.err.field_path[2]])

\* an entity instance that validate() rejects when called on it
Invalid(v) == v.k = "obj" /\ validate(v).err.kind = "ValidationError"

\* C6: when a field holds a sequence of entity instances one of which is
\* itself invalid, validate() of the parent raises ValidationError with the
\* parent's type name and the field name in front of the inner path
C6_SequenceItemsValidated ==
  Validated =>
    \A n \in DOMAIN obj.f :
      (obj.f[n].k = "list" /\ \E i \in 1..Len(obj.f[n].items) : Invalid(obj.f[n].items[i]))
        => /\ last.outcome.err.kind = "ValidationError"
           /\ Len(last.outcome.err.field_path) >= 2

\* the names validate() reports for an attribute path: the type name of
\* each owner and the field name, from the root down
PathNames(o, path) ==
  Concat([i \in 1..Len(path) |->
            << TypeName(GetAt(o, SubSeq(path, 1, i - 1))), path[i].attr >>])

\* the path runs through singular entity-valued fields only
Singular(path) == \A i \in 1..Len(path) : "attr" \in DOMAIN path[i]

\* the value at the path is a single value of another type than declared
WronglyTyped(o, path) ==
  LET v == GetAt(o, path)
      fd == DescAt(o, path)
  IN /\ Truthy(v) /\ ~IsSequence(v)
     /\ TypeName(v) # fd.type
     /\ fd.origin # "UnionType"

MalformedUrls(v) ==
  \/ v.k = "str" /\ ~validators_url(v.s)
  \/ /\ v.k = "list"
     /\ \A i \in 1..Len(v.items) : v.items[i].k = "str"
     /\ \E i \in 1..Len(v.items) : ~validators_url(v.items[i].s)

WellFormedUrlOrNone(v) ==
  \/ v = None
  \/ v.k = "str" /\ validators_url(v.s)
  \/ v.k = "list" /\ v.items # << >>
       /\ \A i \in 1..Len(v.items) : v.items[i].k = "str" /\ validators_url(v.items[i].s)

\* the paths of the URL fields the claim is about: URLBestand of a Bestand,
\* raadpleeglocatieOnline of the single raadpleeglocatie of an Informatieobject
UrlPaths(o) ==
  IF o.cls = "Bestand" THEN {<< AttrStep("URLBestand") >>}
  ELSE IF o.cls = "Informatieobject" /\ TypeName(o.f.raadpleeglocatie) = "RaadpleeglocatieGegevens"
  THEN {<< AttrStep("raadpleeglocatie"), AttrStep("raadpleeglocatieOnline") >>}
  ELSE {}

\* C8: on a Bestand or Informatieobject that is valid but for its URL
\* field, validate() raises ValidationError with a 'malformed' message and
\* a path that names the URL field when the field holds a malformed URL (a
\* string, or for raadpleeglocatieOnline any item of a list); it returns
\* normally when the field holds a well-formed URL or None
C8_UrlValidation ==
  Validated /\ IsTopLevel(obj) =>
    \A path \in UrlPaths(obj) :
      LET url == GetAt(obj, path)
          rest_valid == validate(SetAt(obj, path, None)).err = NoErr
      IN /\ (MalformedUrls(url) /\ rest_valid
               /\ (url.k = "list" => path[Len(path)].attr = "raadpleeglocatieOnline"))
              => /\ last.outcome.err.kind = "ValidationError"
                 /\ last.outcome.err.msg = MsgMalformed(url)
                 /\ last.outcome.err.field_path[Len(last.outcome.err.field_path)]
                      = path[Len(path)].attr
         /\ (WellFormedUrlOrNone(url) /\ rest_valid) => last.outcome.err = NoErr

\* validate() has rejected an Informatieobject for a malformed URL in a list
C8_Witness ==
  /\ Validated /\ obj.cls = "Informatieobject"
  /\ last.outcome.err.kind = "ValidationError"
  /\ last.outcome.err.msg.m = MsgMalformed(None).m
  /\ last.outcome.err.msg.url.k = "list"

\* the URLs an Informatieobject or Bestand holds
UrlValues(o) ==
  IF o.cls = "Bestand" THEN {o.f.URLBestand}
  ELSE LET r == o.f.raadpleeglocatie
           locs == IF r.k = "list" THEN Range(r.items) ELSE {r}
       IN {l.f.raadpleeglocatieOnline : l \in {x \in locs :
             TypeName(x) = "RaadpleeglocatieGegevens"}}

\* C9: whenever validate() returns normally on an Informatieobject or
\* Bestand, every URL it holds (URLBestand, raadpleeglocatieOnline of every
\* RaadpleeglocatieGegevens, single or in a list) is a well-formed URI
C9_UrlsValidAfterValidation ==
  ValidatedOk /\ IsTopLevel(obj) =>
    \A url \in UrlValues(obj) : ~MalformedUrls(url)

(***************************************************************************)
(* Properties of saving                                                    *)
(***************************************************************************)
SaveOps == {"save", "to_bytes", "to_string"}

\* C10: in save(), to_bytes() and to_string(), validate() runs before
\* to_xml() and before anything is written; when validate() raises
\* ValidationError the caller gets that error, to_xml() is not called and
\* the target keeps the content it had
C10_ValidationGatesSaving ==
  [][last'.op \in SaveOps =>
       LET calls == last'.calls
           v == validate(obj)
       IN /\ "to_xml" \in Range(calls) => calls[1] = "validate" /\ v.err = NoErr
          /\ "write" \in Range(calls) => calls = << "validate", "to_xml", "write" >>
          /\ file' # file => "write" \in Range(calls)
          /\ (last'.op # "save" \/ last'.target # "StringIO") /\ v.err.kind = "ValidationError"
               => /\ last'.raised = v.err
                  /\ calls = << "validate" >>
                  /\ file' = file
                  /\ last'.op # "save" => last'.result = NoContent]_vars

\* save() has failed validation on a target that had been written before
C10_Witness ==
  /\ last.op = "save"
  /\ last.raised.kind = "ValidationError"
  /\ file # NoContent

(***************************************************************************)
(* Properties of the decoder: dispatch and errors                          *)
(***************************************************************************)
WasRead == last.op = "from_xml" /\ doc.children # << >>

\* the name of the first child of the document root, prefix stripped
object_type == removeprefix(doc.children[1])

\* C11: when the first child of the document root (namespace prefix
\* stripped) is named informatieobject, what from_xml returns is an
\* Informatieobject; when it is named bestand, a Bestand; for every other
\* name from_xml raises ValueError and no object is returned
C11_TopLevelDispatch ==
  WasRead =>
    /\ object_type = "informatieobject" =>
          (Raised(last.result) \/ last.result.cls = "Informatieobject")
    /\ object_type = "bestand" => (Raised(last.result) \/ last.result.cls = "Bestand")
    /\ object_type \notin {"informatieobject", "bestand"} =>
          last.result = Raise("ValueError") /\ obj = None

\* a document whose root child was renamed, or moved to another namespace,
\* has been read and refused
C11_Witness ==
  /\ WasRead /\ nedit > 0
  /\ object_type \notin {"informatieobject", "bestand"}
  /\ last.result = Raise("ValueError")

\* the elements of the document whose tag is not a field name of the entity
\* type their parent element is decoded as
Unrecognized(root) ==
  {p \in ElemPaths(root) :
     /\ Len(p) >= 2
     /\ ElemType(root, Front(p)) \in ClassNames
     /\ removeprefix(ElemAt(root, p)) \notin FieldNames(ElemType(root, Front(p)))}

\* C12: a child element whose tag is not a field name of the entity type of
\* its parent element makes from_xml fail with an error instead of returning
\* an object, for every known parent element of every entity type, the
\* identificatie blocks and the reference blocks included
C12_UnrecognizedTagsRefused ==
  (WasRead /\ Unrecognized(doc) # {}) => Raised(last.result)

\* the elements that are followed by a sibling of another name
BeforeOtherName(root) ==
  {p \in ElemPaths(root) :
     /\ << >> \o Front(p) \o << Last(p) + 1 >> \in ElemPaths(root)
     /\ removeprefix(ElemAt(root, p))
          # removeprefix(ElemAt(root, << >> \o Front(p) \o << Last(p) + 1 >>))}

\* new is old with two neighbouring children of different names exchanged;
\* such exchanges make every permutation that keeps the order of the
\* same-named siblings
Exchanged(old, new) == \E p \in BeforeOtherName(old) : new = indent(SwapAt(old, p), 0)

\* C13: for every accepted document, permuting the child elements of any
\* element while keeping the relative order of same-named siblings yields a
\* document that from_xml accepts and decodes to an object equal to the one
\* decoded from the original, at every nesting level, the identificatie and
\* reference blocks included
C13_OrderIndependentDecoding ==
  [][(Exchanged(doc, doc') /\ ~Raised(from_xml(doc))) => from_xml(doc') = from_xml(doc)]_vars

\* the identification blocks of the document (identificatie and
\* verwijzingIdentificatie elements) that lack one of their two children
IncompleteIdentificatie(root) ==
  {p \in ElemPaths(root) :
     /\ ElemType(root, p) = "IdentificatieGegevens"
     /\ \E n \in FieldNames("IdentificatieGegevens") :
          \A i \in 1..Len(ElemAt(root, p).children) :
            removeprefix(ElemAt(root, p).children[i]) # n}

\* C14: decoding a document in which an identification block (identificatie
\* or verwijzingIdentificatie) lacks identificatieKenmerk or identificatieBron
\* fails with an error, and never yields an IdentificatieGegevens with a
\* missing or shifted value
C14_IncompleteIdentificatieRefused ==
  (WasRead /\ IncompleteIdentificatie(doc) # {}) => Raised(last.result)

(***************************************************************************)
(* Properties of encoding and decoding together                            *)
(***************************************************************************)
MinimalFields == {"identificatie", "naam", "archiefvormer", "beperkingGebruik", "waardering"}

RECURSIVE NoEmptyValues(_)
\* no empty string and no empty sequence is held anywhere in v
NoEmptyValues(v) ==
  CASE v.k = "str" -> v.s # ""
    [] v.k = "list" -> v.items # << >> /\ \A i \in 1..Len(v.items) : NoEmptyValues(v.items[i])
    [] v.k = "obj" -> \A n \in DOMAIN v.f : NoEmptyValues(v.f[n])
    [] OTHER -> TRUE

\* an Informatieobject holding only identificatie, naam, archiefvormer,
\* beperkingGebruik and waardering, each a single value, and valid
MinimalInformatieobject(o) ==
  /\ o # None /\ o.cls = "Informatieobject"
  /\ \A n \in FieldNames("Informatieobject") :
       IF n \in MinimalFields THEN o.f[n] # None /\ ~IsSequence(o.f[n]) ELSE o.f[n] = None
  /\ NoEmptyValues(o)
  /\ validate(o).err = NoErr

\* C15: an Informatieobject constructed with only identificatie, naam,
\* archiefvormer, beperkingGebruik and waardering (each a single, valid,
\* non-empty value) encodes to a root MDTO element with exactly one child,
\* named informatieobject, whose children are exactly identificatie, naam,
\* waardering, archiefvormer, beperkingGebruik in that order; from_xml of
\* that document yields an object equal to the original
C15_MinimalInformatieobject ==
  (last.op = "to_xml" /\ MinimalInformatieobject(obj)) =>
    /\ ~Raised(last.tree)
    /\ last.tree.tag = "MDTO" /\ Len(last.tree.children) = 1
    /\ last.tree.children[1].tag = "informatieobject"
    /\ Tags(last.tree.children[1])
         = << "identificatie", "naam", "waardering", "archiefvormer", "beperkingGebruik" >>
    /\ from_xml(ET_parse(ET_write(last.tree))) = obj

\* the Informatieobject built from its five mandatory fields alone has been
\* encoded
C15_Witness ==
  /\ last.op = "to_xml" /\ nassign = 0 /\ doc = NoDoc
  /\ obj = Minimal("Informatieobject")
  /\ MinimalInformatieobject(obj)

(***************************************************************************)
(* The advisory on long names                                              *)
(***************************************************************************)
\* the names validate() looks at: the naam of the object itself and the
\* verwijzingNaam of every reference it reaches through singular fields
NamePaths(o) ==
  {p \in Paths(o) :
     /\ \A i \in 1..Len(p) : "attr" \in DOMAIN p[i]
     /\ IF Len(p) = 1 THEN p[1].attr = "naam" ELSE p[Len(p)].attr = "verwijzingNaam"}

\* the names among them that exceed the recommended length
LongNames(o) ==
  {p \in NamePaths(o) :
     /\ GetAt(o, p).k = "str"
     /\ Len(GetAt(o, p).s) > MDTO_MAX_NAAM_LENGTH}

\* the warning validate() logs for the name at p
WarningFor(o, p) ==
  IF Len(p) = 1
  THEN LongNameWarning(o.cls, "naam", GetAt(o, p).s)
  ELSE LongNameWarning("VerwijzingGegevens", "verwijzingNaam", GetAt(o, p).s)

SavedToFile == last.op = "save" /\ last.target # "StringIO"

RECURSIVE ValidThroughout(_)
\* o and every entity below it, the items of sequences included, pass
\* validate()
ValidThroughout(o) ==
  IF IsSerializable(o)
  THEN /\ validate(o).err = NoErr
       /\ \A n \in DOMAIN o.f : ValidThroughout(o.f[n])
  ELSE IF IsSequence(o)
  THEN \A i \in 1..Len(o.items) : ValidThroughout(o.items[i])
  ELSE TRUE

\* o is valid throughout once the name at p is a short one
ValidButForName(o, p) == ValidThroughout(SetAt(o, p, PyStr("a")))

\* C16: an object that is valid but for the length of its names is saved all
\* the same: validation does not raise, the document is encoded and written,
\* and the log holds one warning for each name longer than
\* MDTO_MAX_NAAM_LENGTH characters and none for a name of exactly that length
C16_LongNameAdvisory ==
  SavedToFile =>
    /\ \A p \in NamePaths(obj) :
         (GetAt(obj, p).k = "str" /\ GetAt(obj, p).s # "" /\ ValidButForName(obj, p)) =>
           /\ last.raised = NoErr
           /\ last.calls = << "validate", "to_xml", "write" >>
           /\ file = ET_write(top_to_xml(obj))
    /\ last.raised = NoErr =>
         /\ Len(last.log) = Cardinality(LongNames(obj))
         /\ \A p \in LongNames(obj) :
              \E i \in 1..Len(last.log) : last.log[i] = WarningFor(obj, p)

\* an object whose name has one character too many has been saved with a
\* warning
C16_Witness ==
  /\ SavedToFile
  /\ nassign > 0
  /\ obj.f.naam = PyStr(TooLongName)
  /\ last.raised = NoErr
  /\ last.log = << LongNameWarning(obj.cls, "naam", TooLongName) >>
  /\ file = ET_write(top_to_xml(obj))

(***************************************************************************)
(* Properties of pronominfo                                                *)
(***************************************************************************)
Detection == last.op = "pronominfo"

UsedOnly(program) == last.invoked = << program >>

Refused(exc) == last.result = Raise(exc) /\ last.invoked = << >>

\* C17: for a path that is not an existing file pronominfo raises TypeError;
\* otherwise a value of PRONOM_BACKEND other than sf, siegfried or fido
\* raises ValueError; otherwise with PRONOM_BACKEND unset sf is run when
\* installed, else fido when installed, else RuntimeError is raised; with
\* PRONOM_BACKEND naming a backend exactly that one is run, and when it is
\* not installed RuntimeError is raised.  Whenever one of these errors is
\* raised no backend has been run.
C17_BackendSelection ==
  Detection =>
    IF ~os_path_isfile(os) THEN Refused("TypeError")
    ELSE IF os.environ = None
    THEN IF "sf" \in os.installed THEN UsedOnly("sf")
         ELSE IF "fido" \in os.installed THEN UsedOnly("fido")
         ELSE Refused("RuntimeError")
    ELSE IF os.environ \in {PyStr("sf"), PyStr("siegfried")}
    THEN IF "sf" \in os.installed THEN UsedOnly("sf") ELSE Refused("RuntimeError")
    ELSE IF os.environ = PyStr("fido")
    THEN IF "fido" \in os.installed THEN UsedOnly("fido") ELSE Refused("RuntimeError")
    ELSE Refused("ValueError")

\* fido was asked for while only sf is installed, and pronominfo refused
\* without running sf
C17_Witness ==
  /\ Detection
  /\ os_path_isfile(os)
  /\ os.environ = PyStr("fido")
  /\ os.installed = {"sf"}
  /\ Refused("RuntimeError")

(***************************************************************************)
(* Properties of the encoder: what each field contributes                  *)
(***************************************************************************)
\* the number of elements a field value stands for, and the i-th of the
\* values behind them
Width(v) == IF v = None THEN 0 ELSE IF IsSequence(v) THEN Len(v.items) ELSE 1

ItemOf(v, i) == IF IsSequence(v) THEN v.items[i] ELSE v

IsPrimitive(v) == v.k \in {"str", "int"}

RECURSIVE EncodesFields(_, _, _), EncodesItem(_, _, _)
\* elems is, field by field in the order fs, what the per-field rule asks
\* for the values of o
EncodesFields(o, fs, elems) ==
  IF fs = << >> THEN elems = << >>
  ELSE LET n == Width(o.f[Head(fs).name])
       IN /\ Len(elems) >= n
          /\ \A i \in 1..n :
               EncodesItem(Head(fs).name, ItemOf(o.f[Head(fs).name], i), elems[i])
          /\ EncodesFields(o, Tail(fs), SubSeq(elems, n + 1, Len(elems)))

\* e is the element for one value of the field called name
EncodesItem(name, v, e) ==
  /\ e.tag = name
  /\ IF IsSerializable(v)
     THEN EncodesFields(v, mdto_ordered_fields(v.cls), e.children)
     ELSE IsPrimitive(v) /\ e.text = py_str(v) /\ e.children = << >>

RECURSIVE Encodable(_)
\* every value below v is a primitive, a *Gegevens entity or a sequence of
\* strings and such entities
Encodable(v) ==
  IF v = None \/ IsPrimitive(v) THEN TRUE
  ELSE IF IsSequence(v)
  THEN \A i \in 1..Len(v.items) :
         (v.items[i].k = "str" \/ IsSerializable(v.items[i])) /\ Encodable(v.items[i])
  ELSE /\ ~IsTopLevel(v)
       /\ \A n \in DOMAIN v.f : Encodable(v.f[n])

\* the element to_xml made for the object itself
EncodedElem == IF IsTopLevel(obj) THEN last.tree.children[1] ELSE last.tree

\* the values of the object's own fields are encodable
EncodableFields == \A n \in DOMAIN obj.f : Encodable(obj.f[n])

\* C18: the element to_xml produces has as children, per field in resolver
\* order, nothing for None, one element per item of a sequence and one
\* element for a single value, each named after the field; a primitive's
\* element holds str(value), an entity's element its own encoding.  An
\* element is produced whenever the sequences hold strings or entities.
C18_PerFieldRule ==
  last.op = "to_xml" =>
    /\ EncodableFields => ~Raised(last.tree)
    /\ ~Raised(last.tree) =>
         EncodesFields(obj, mdto_ordered_fields(obj.cls), EncodedElem.children)

\* an object holding absent fields, single values and, after an assignment,
\* a sequence of two entities has been encoded
C18_Witness ==
  /\ last.op = "to_xml"
  /\ nassign > 0
  /\ ~Raised(last.tree)
  /\ \E n \in DOMAIN obj.f : obj.f[n] = None
  /\ \E n \in DOMAIN obj.f : IsPrimitive(obj.f[n])
  /\ \E n \in DOMAIN obj.f :
       /\ IsSequence(obj.f[n])
       /\ Len(obj.f[n].items) = 2
       /\ IsSerializable(obj.f[n].items[1])

(***************************************************************************)
(* Properties of the validator: which error is reported                    *)
(***************************************************************************)
\* what is wrong with the value v of field fd, the checks taken in the
\* order empty, sequence, type: "none" when nothing is
Fault(fd, v) ==
  IF ~Truthy(v) THEN (IF fd.optional THEN "none" ELSE "empty")
  ELSE IF IsSequence(v)
  THEN IF fd.origin # "Union" THEN "sequence"
       ELSE IF \E i \in 1..Len(v.items) : TypeName(v.items[i]) # fd.type THEN "items"
       ELSE "none"
  ELSE IF TypeName(v) # fd.type THEN "type"
  ELSE IF IsSerializable(v) /\ validate(v).err # NoErr THEN "nested"
  ELSE "none"

\* the positions, in declaration order, of the invalid fields of o
InvalidFields(o) ==
  {i \in 1..Len(fields(o.cls)) : Fault(fields(o.cls)[i], o.f[fields(o.cls)[i].name]) # "none"}

\* the message that goes with a fault of the field itself
FaultMsg(fd, v) ==
  CASE Fault(fd, v) = "empty" -> MsgMandatory
    [] Fault(fd, v) = "sequence" -> MsgNoSequences(TypeName(v))
    [] Fault(fd, v) = "items" ->
         MsgListItems(fd.type, {TypeName(v.items[i]) : i \in 1..Len(v.items)})
    [] Fault(fd, v) = "type" -> MsgExpectedType(fd.type, TypeName(v))
    [] Fault(fd, v) = "nested" -> validate(v).err.msg

\* the error validate() is to raise for the invalid field at position i
FirstFault(o, i) ==
  LET fd == fields(o.cls)[i]
  IN /\ last.outcome.err.kind = "ValidationError"
     /\ SubSeq(last.outcome.err.field_path, 1, 2) = << o.cls, fd.name >>
     /\ last.outcome.err.msg = FaultMsg(fd, o.f[fd.name])
     /\ Fault(fd, o.f[fd.name]) # "nested" => Len(last.outcome.err.field_path) = 2

\* C19: when fields of the instance are invalid, validate() raises the
\* ValidationError of the one that comes first in declaration order, with
\* the message of the first check it fails: empty for a mandatory field,
\* then sequence on a singular field, then type
C19_FirstMatchWins ==
  (Validated /\ InvalidFields(obj) # {}) => FirstFault(obj, Min(InvalidFields(obj)))

(***************************************************************************)
(* Properties of the validator: sequences and element types                *)
(***************************************************************************)
\* the value is a sequence with an item of another type than declared
WronglyTypedItem(o, path) ==
  LET v == GetAt(o, path)
  IN /\ IsSequence(v)
     /\ \E i \in 1..Len(v.items) : TypeName(v.items[i]) # DescAt(o, path).type

\* the value is a single value of another type than declared
WronglyTypedValue(o, path) ==
  LET v == GetAt(o, path)
  IN Truthy(v) /\ ~IsSequence(v) /\ TypeName(v) # DescAt(o, path).type

\* validate() raised ValidationError for the field at path with msg
RaisedFor(o, path, msg) == last.outcome.err = ValidationError(PathNames(o, path), msg)

\* C20: on an instance that is valid but for one field, validate() raises
\* ValidationError for that field when it is singular and holds a non-empty
\* sequence, when it is listable and holds a sequence with an item of
\* another type than expected, and when it holds a single value of another
\* type than expected
C20_SequenceAndTypeChecks ==
  Validated =>
    \A path \in Paths(obj) :
      (Singular(path) /\ ValidButFor(obj, path)) =>
        LET v == GetAt(obj, path)
            fd == DescAt(obj, path)
        IN /\ (IsSequence(v) /\ Truthy(v) /\ fd.origin = "plain")
                => RaisedFor(obj, path, MsgNoSequences(TypeName(v)))
           /\ (WronglyTypedItem(obj, path) /\ fd.origin = "Union")
                => RaisedFor(obj, path,
                     MsgListItems(fd.type, {TypeName(v.items[i]) : i \in 1..Len(v.items)}))
           /\ WronglyTypedValue(obj, path)
                => RaisedFor(obj, path, MsgExpectedType(fd.type, TypeName(v)))

(***************************************************************************)
(* Properties of the validator: the path of a URL error                    *)
(***************************************************************************)
\* the paths from o down to a raadpleeglocatieOnline, through singular
\* fields
OnlinePaths(o) ==
  {p \in Paths(o) :
     /\ Singular(p)
     /\ p[Len(p)].attr = "raadpleeglocatieOnline"
     /\ TypeName(GetAt(o, SubSeq(p, 1, Len(p) - 1))) = "RaadpleeglocatieGegevens"}

\* C21: on an instance that is valid but for a malformed
\* raadpleeglocatieOnline, validate() raises ValidationError whose
\* field_path is the chain of [type name, field name] pairs from the
\* instance down to raadpleeglocatieOnline, each once
C21_UrlErrorPath ==
  Validated =>
    \A p \in OnlinePaths(obj) :
      (MalformedUrls(GetAt(obj, p)) /\ validate(SetAt(obj, p, None)).err = NoErr) =>
        /\ last.outcome.err.kind = "ValidationError"
        /\ last.outcome.err.field_path = PathNames(obj, p)

(***************************************************************************)
(* Properties of the decoder: references                                   *)
(***************************************************************************)
\* the reference elements of the document: those of a field whose type is
\* VerwijzingGegevens
References(root) == {p \in ElemPaths(root) : ElemType(root, p) = "VerwijzingGegevens"}

RECURSIVE Holds(_, _)
\* the value v is held by o, at any depth
Holds(o, v) ==
  \/ o = v
  \/ IsSerializable(o) /\ \E n \in DOMAIN o.f : Holds(o.f[n], v)
  \/ IsSequence(o) /\ \E i \in 1..Len(o.items) : Holds(o.items[i], v)

\* what the claim says parse_verwijzing makes of a reference element with
\* one child, and with two
NameOnly(e) ==
  New("VerwijzingGegevens", [verwijzingNaam |-> node_text(e.children[1])])

NameAndIdentification(e) ==
  New("VerwijzingGegevens",
      [verwijzingNaam |-> node_text(e.children[1]),
       verwijzingIdentificatie |->
         New("IdentificatieGegevens",
             [identificatieKenmerk |-> node_text(e.children[2].children[1]),
              identificatieBron |-> node_text(e.children[2].children[2])])])

\* C22: a reference element with one child decodes to a VerwijzingGegevens
\* with the text of that child as name and no identification; with two
\* children, the second holding two, to one with the text of the first as
\* name and the IdentificatieGegevens of the second's children; with no
\* child decoding fails.  What from_xml returns holds these values.
C22_ReferenceByArity ==
  WasRead =>
    \A p \in References(doc) :
      LET e == ElemAt(doc, p)
      IN /\ Len(e.children) = 0 => Raised(parse_verwijzing(e)) /\ Raised(last.result)
         /\ Len(e.children) = 1 =>
              /\ parse_verwijzing(e) = NameOnly(e)
              /\ ~Raised(last.result) => Holds(last.result, NameOnly(e))
         /\ (Len(e.children) = 2 /\ Len(e.children[2].children) = 2) =>
              /\ parse_verwijzing(e) = NameAndIdentification(e)
              /\ ~Raised(last.result) => Holds(last.result, NameAndIdentification(e))

\* a document with a reference of one child and one of two has been decoded,
\* after an edit
C22_Witness ==
  /\ WasRead /\ nedit > 0 /\ ~Raised(last.result)
  /\ \E p \in References(doc) : Len(ElemAt(doc, p).children) = 1
  /\ \E p \in References(doc) :
       /\ Len(ElemAt(doc, p).children) = 2
       /\ Len(ElemAt(doc, p).children[2].children) = 2

(***************************************************************************)
(* Validation is explicit                                                  *)
(***************************************************************************)
\* the mandatory fields of the object that hold None
MissingFields(o) == {fd \in Range(fields(o.cls)) : ~fd.optional /\ o.f[fd.name] = None}

\* C23: construction and assignment raise nothing, whatever the values;
\* to_xml() never raises ValidationError and, on an instance that
\* validate() rejects, still returns a tree, which lacks the element of
\* every mandatory field that holds None
C23_NoImplicitValidation ==
  /\ last.op \in {"construct", "assign"} => DOMAIN last = {"op"}
  /\ last.op = "to_xml" =>
       /\ Raised(last.tree) => last.tree.kind # "ValidationError"
       /\ EncodableFields => ~Raised(last.tree)
       /\ ~Raised(last.tree) =>
            \A fd \in MissingFields(obj) : fd.name \notin Range(Tags(EncodedElem))

\* an instance made invalid by assigning None to a mandatory field has been
\* encoded without that element
C23_Witness ==
  /\ last.op = "to_xml" /\ nassign > 0
  /\ validate(obj).err = ValidationError(<< obj.cls, "naam" >>, MsgMandatory)
  /\ ~Raised(last.tree)
  /\ "naam" \notin Range(Tags(EncodedElem))
  /\ "identificatie" \in Range(Tags(EncodedElem))

(***************************************************************************)
(* Properties of the validator: listable fields                            *)
(***************************************************************************)
\* the field is declared as `T or list of T`, in either spelling
DeclaredListable(fd) == fd.origin \in {"Union", "UnionType"}

\* a non-empty sequence of valid values of the type of the field
ValidItems(fd, v) ==
  /\ IsSequence(v) /\ Truthy(v)
  /\ \A i \in 1..Len(v.items) : TypeName(v.items[i]) = fd.type
  /\ ValidThroughout(v)
  /\ IsUrlField(fd.name) => WellFormedUrlOrNone(v)

\* C24: on an instance that is valid but for one field declared as `T or
\* list of T`, validate() returns normally when the field holds a non-empty
\* sequence of valid T, as it does for a single valid T
C24_UniformListability ==
  Validated =>
    \A path \in Paths(obj) :
      (Singular(path) /\ DeclaredListable(DescAt(obj, path)) /\ ValidButFor(obj, path)
         /\ ValidItems(DescAt(obj, path), GetAt(obj, path)))
        => last.outcome.err = NoErr

(***************************************************************************)
(* Termination of validate() on graphs of instances                        *)
(***************************************************************************)
\* the entity types the fields of cls are declared with
Referenced(cls) == {fd.type : fd \in {x \in Range(fields(cls)) : x.type \in ClassNames}}

RECURSIVE ReachableTypes(_, _)
\* the entity types reached from the types in S along at most n references
ReachableTypes(S, n) ==
  IF n = 0 THEN S
  ELSE ReachableTypes(S \cup UNION {Referenced(c) : c \in S}, n - 1)

\* no entity type reaches itself along the references of its fields
AcyclicTypes ==
  \A c \in ClassNames : c \notin ReachableTypes(Referenced(c), Cardinality(ClassNames))

RECURSIVE TypeDepth(_)
\* the number of types on the longest chain of references that starts at cls
TypeDepth(cls) ==
  LET below == {TypeDepth(c) : c \in Referenced(cls)}
  IN 1 + (IF below = {} THEN 0 ELSE CHOOSE d \in below : \A e \in below : e <= d)

\* the instances on the call stack follow the declared types of the fields
\* they were reached through
FollowsTypes ==
  \A d \in 2..Len(frames) :
    LET caller == frames[d - 1]
        field == fields(heap[caller.id].cls)[caller.i]
    IN /\ heap[frames[d].id].cls = field.type
       /\ heap[caller.id].f[field.name] = Ref(frames[d].id)

\* some instance reaches itself along single-valued fields
RECURSIVE Reaches(_, _, _)
Reaches(i, j, n) ==
  n > 0 /\ \E name \in FieldNames(heap[i].cls) :
             LET v == heap[i].f[name]
             IN IsRef(v) /\ (v.id = j \/ Reaches(v.id, j, n - 1))

Cyclic == \E i \in DOMAIN heap : Reaches(i, i, Len(heap))

Running == frames # << >>

\* C25: validate() terminates on every graph of instances, cyclic ones
\* included: it descends only into a single value that is an instance of the
\* field's declared entity type, the declared types refer to one another
\* without a cycle, and so the calls in progress are never more than the
\* types on the longest chain below the class validated, which is the six of
\* Informatieobject -> BeperkingGebruikGegevens -> TermijnGegevens ->
\* BegripGegevens -> VerwijzingGegevens -> IdentificatieGegevens at most.
C25_ValidateTerminates ==
  /\ [](/\ AcyclicTypes
        /\ \A c \in ClassNames : TypeDepth(c) <= TypeDepth("Informatieobject")
        /\ TypeDepth("Informatieobject") = 6
        /\ TypeDepth("BeperkingGebruikGegevens") = 5
        /\ Running => /\ FollowsTypes
                      /\ Len(frames) <= TypeDepth(heap[frames[1].id].cls))
  /\ (Running ~> ~Running)

\* validate() has returned or raised on a graph with a reference cycle
C25_Witness ==
  /\ last.op = "validate"
  /\ ~Running
  /\ Cyclic

EmptyValues == {None, PyStr(""), PyList(<< >>), PyInt(0)}

\* the mandatory fields of o, at any depth, that hold an empty value while o
\* is valid but for that
EmptyMandatory(o) ==
  {p \in Paths(o) : /\ Singular(p)
                    /\ ~DescAt(o, p).optional
                    /\ GetAt(o, p) \in EmptyValues
                    /\ ValidButFor(o, p)}

ZeroByteBestand ==
  /\ obj.cls = "Bestand"
  /\ obj.f.omvang = PyInt(0)
  /\ ValidButFor(obj, << [attr |-> "omvang"] >>)

\* C27: emptiness of a mandatory field is decided by truthiness.  For a
\* mandatory field holding None, an empty string, an empty sequence or the
\* integer 0 on an otherwise valid object, validate() raises the
\* mandatory-field error at that field, and save(), to_bytes() and
\* to_string() raise it without encoding or writing anything; a Bestand with
\* omvang = 0 is such an object.
C27_EmptyByTruthiness ==
  (last.op \in SaveOps /\ (last.op = "save" => last.target # "StringIO")) =>
    /\ \A p \in EmptyMandatory(obj) :
         /\ validate(obj).err = ValidationError(PathNames(obj, p), MsgMandatory)
         /\ last.raised = validate(obj).err
         /\ last.calls = << "validate" >>
    /\ ZeroByteBestand => << [attr |-> "omvang"] >> \in EmptyMandatory(obj)

\* a Bestand of zero bytes, valid in all else, was refused by save() and
\* nothing was written
C27_Witness ==
  /\ SavedToFile
  /\ ZeroByteBestand
  /\ last.raised = ValidationError(<< "Bestand", "omvang" >>, MsgMandatory)
  /\ last.calls = << "validate" >>
  /\ file = NoContent

(***************************************************************************)
(* What the validator passes over and what the encoder leaves out          *)
(***************************************************************************)
RECURSIVE HasEmptyText(_)
\* some element of the tree has neither text nor children
HasEmptyText(elem) ==
  \/ elem.children = << >> /\ elem.text = ""
  \/ \E i \in 1..Len(elem.children) : HasEmptyText(elem.children[i])

\* the optional fields of o, at any depth, that validate() passes over as
\* empty
SkippedFields(o) ==
  {p \in Paths(o) : /\ Singular(p)
                    /\ DescAt(o, p).optional
                    /\ GetAt(o, p) \in {None, PyStr(""), PyList(<< >>)}}

\* C28: validator and encoder agree on what is absent.  An instance that
\* passes validate(), its nested instances and items included, encodes to a
\* tree without an element of empty text: the optional fields that validate()
\* passed over as empty (None, empty string, empty sequence) are left out.
C28_EmptyOptionalOmitted ==
  (last.op = "to_xml" /\ ~Raised(last.tree) /\ ValidThroughout(obj)) =>
    /\ ~HasEmptyText(Body(last.tree))
    /\ \A p \in SkippedFields(obj) :
         Len(p) = 1 => p[1].attr \notin Range(Tags(Body(last.tree)))

(***************************************************************************)
(* Round trip: instance to document to instance                            *)
(***************************************************************************)
RECURSIVE ByCount(_)
\* v with every empty list replaced by None and every one-item list by its
\* item, in v and in the instances below it
ByCount(v) ==
  CASE v.k = "obj" -> PyObj(v.cls, [n \in DOMAIN v.f |-> ByCount(v.f[n])])
    [] v.k = "list" ->
         IF Len(v.items) = 0 THEN None
         ELSE IF Len(v.items) = 1 THEN ByCount(v.items[1])
         ELSE PyList([i \in 1..Len(v.items) |-> ByCount(v.items[i])])
    [] OTHER -> v

\* from_xml on the document that holds the tree
ReadBack(tree) == from_xml(ET_parse(ET_write(tree)))

\* C29: for every top-level instance o that passes validate(),
\* from_xml(o.to_xml()) is o with each one-item list replaced by its item
\* and each empty list by None, and with no other difference; so it equals
\* o when every list of o and of its nested instances has two items or more.
C29_RoundTrip ==
  (last.op = "to_xml" /\ IsTopLevel(obj) /\ validate(obj).err = NoErr) =>
    /\ ~Raised(last.tree)
    /\ ReadBack(last.tree) = ByCount(obj)

(***************************************************************************)
(* The field-order resolver returns a permutation                          *)
(***************************************************************************)
\* seq holds each element of `of` once and nothing else
IsPermutation(seq, of) ==
  /\ Len(seq) = Len(of)
  /\ \A i \in 1..Len(of) : Cardinality({j \in 1..Len(seq) : seq[j] = of[i]}) = 1

\* the classes that override _mdto_ordered_fields
Overriding == {"BegripGegevens", "Informatieobject", "Bestand"}

\* C30: for every entity type, _mdto_ordered_fields returns each declared
\* field of the type exactly once, none dropped and none duplicated, and the
\* declaration order for the types without an override; so the element
\* to_xml() produces holds, for every field of the instance, as many
\* children named after the field as the field has values: none for None,
\* one for a single value, one per item of a sequence.
C30_ResolverPermutation ==
  /\ \A cls \in ClassNames :
       /\ IsPermutation(mdto_ordered_fields(cls), fields(cls))
       /\ cls \notin Overriding => mdto_ordered_fields(cls) = fields(cls)
  /\ (last.op = "to_xml" /\ ~Raised(last.tree)) =>
       \A n \in FieldNames(obj.cls) :
         Cardinality({i \in 1..Len(EncodedElem.children) : EncodedElem.children[i].tag = n})
           = Width(obj.f[n])

\* a Bestand with all its fields set was encoded, one child per field
C30_Witness ==
  /\ last.op = "to_xml"
  /\ ~Raised(last.tree)
  /\ obj.cls = "Bestand"
  /\ \A n \in FieldNames("Bestand") : obj.f[n] # None
  /\ Len(EncodedElem.children) >= Len(fields("Bestand"))
  /\ mdto_ordered_fields("Bestand") # fields("Bestand")

=============================================================================
